---- MODULE Spec2Model ----
(***************************************************************************)
(* A model of ballistica's ClientSession: the interpreter of the binary    *)
(* session-command stream (client_session.cc).  Commands are sequences of  *)
(* bytes; the read cursor current_cmd_ptr_ is the offset of the pointer    *)
(* from &current_cmd_[0].  A ReplayClientSession (replay_client_session.cc) *)
(* is the same session fed from a replay file and relaying to clients.     *)
(***************************************************************************)
EXTENDS Integers, Sequences, FiniteSets, TLC

VARIABLES
  scenes_, nodes_, textures_, models_, sounds_, collide_models_, materials_,
  commands_pending_, commands_,
  base_time_buffered_, base_time_, target_base_time_,
  current_cmd_, current_cmd_ptr_,
  shutting_down_,
  debug_build,      \* the build: asserts compiled in (debug) or out (release)
  crashed,          \* the process was aborted (failed assert, memory fault)
  oob,              \* some access so far touched a byte outside its buffer
  launch_calls,     \* PushObjCall(kLaunchMainMenuSessionCall) calls so far
  tick_log,         \* the commands the last dispatching tick executed
  underrun_log,     \* OnCommandBufferUnderrun calls of that tick: for each,
                    \* how many commands the tick had executed by then
  not_executed,     \* the commands passed to AddCommand since the last
                    \* reset and not executed yet, in the order passed
  feed,             \* the commands and envelopes the stream source sends
  rd,               \* outcome of the last primitive cursor read
  replay,           \* the ReplayClientSession part: its file, its client
                    \* connections, and what the last operation read and sent
  ticks             \* parity of the Update calls a replay session was given

vars == <<scenes_, nodes_, textures_, models_, sounds_, collide_models_,
          materials_, commands_pending_, commands_, base_time_buffered_,
          base_time_, target_base_time_, current_cmd_, current_cmd_ptr_,
          shutting_down_, debug_build, crashed, oob, launch_calls, tick_log,
          underrun_log, not_executed, feed, rd, replay, ticks>>

(***************************************************************************)
(* Bounds of the model.                                                    *)
(***************************************************************************)
MaxQueue == 2        \* commands held in commands_pending_ and commands_
MaxTime == 48        \* largest target_base_time_ a tick may reach
MaxBuf == 6          \* payload bytes of a cursor-read buffer
MaxEnvelope == 3     \* commands of one COMMANDS envelope
MaxWorld == 7        \* commands of one world-building envelope
MaxCount == 2        \* element count of an array read

(***************************************************************************)
(* Bytes and fixed-width integers (little endian, as memcpy on the         *)
(* supported targets).                                                     *)
(***************************************************************************)
\* The bytes of a 32-bit two's-complement value (% and \div round down).
Int32Bytes(v) ==
  <<v % 256, (v \div 256) % 256, (v \div 65536) % 256,
    (v \div 16777216) % 256>>

U16Bytes(u) == <<u % 256, (u \div 256) % 256>>

DecodeU16(b) == b[1] + 256 * b[2]

DecodeInt32(b) ==
  b[1] + 256 * b[2] + 65536 * b[3]
    + 16777216 * (IF b[4] >= 128 THEN b[4] - 256 ELSE b[4])

\* A uint32_t kept as the int32_t with the same bytes: the values from
\* 2^31 on are the negative ones.
DecodeU32(b) == DecodeInt32(b)

U32Less(u, n) == u >= 0 /\ u < n

Zeros(n) == [i \in 1..n |-> 0]

(***************************************************************************)
(* Opcodes (SessionCommand) and session-message kinds.                     *)
(***************************************************************************)
kBaseTimeStep == 0
kStepSceneGraph == 1
kAddSceneGraph == 2
kRemoveSceneGraph == 3
kAddNode == 4
kNodeOnCreate == 5
kSetForegroundSceneGraph == 6
kRemoveNode == 7
kAddMaterial == 8
kRemoveMaterial == 9
kAddTexture == 11
kRemoveTexture == 12
kAddModel == 13
kRemoveModel == 14
kAddSound == 15
kRemoveSound == 16
kAddCollideModel == 17
kRemoveCollideModel == 18
kEndOfFile == 48
kDynamicsCorrection == 49
kUnknownCommand == 255

BA_MESSAGE_SESSION_RESET == 1
BA_MESSAGE_SESSION_COMMANDS == 2
BA_MESSAGE_SESSION_DYNAMICS_CORRECTION == 3
kUnknownMessage == 99

kInt32Max == 2147483647
kMaxStepSize == 10000
kMaxSceneId == 100
kMaxNodeId == 10000
kAssetIdLimit == 1000
consume_rate_ == 1
kNodeTypeCount == 6     \* g_app->node_types_by_id.size()
kBodyFullSize == 3      \* bytes RigidBody::ExtractFull consumes

(***************************************************************************)
(* Id-indexed slot tables: a vector of nullable references is its size     *)
(* and the map from the occupied ids to their objects.                     *)
(***************************************************************************)
EmptyTable == [size |-> 0, occ |-> <<>>]

Exists(t, id) == id \in DOMAIN t.occ

ResizeUpTo(t, id) == IF t.size < id + 1 THEN [t EXCEPT !.size = id + 1] ELSE t

Put(t, id, obj) ==
  [t EXCEPT !.occ = [i \in (DOMAIN t.occ) \cup {id} |->
                        IF i = id THEN obj ELSE t.occ[i]]]

\* A removal that also drops the slots from the removed one on.
ClearSlot_Truncates(t, id) ==
  [t EXCEPT !.occ = [i \in (DOMAIN t.occ) \ {id} |-> t.occ[i]],
            !.size = id]

ClearSlot(t, id) ==
  [t EXCEPT !.occ = [i \in (DOMAIN t.occ) \ {id} |-> t.occ[i]]]

(***************************************************************************)
(* The session as one record, so that a handler is a function from         *)
(* session to session.  exc is the exception in flight ("" when none).     *)
(***************************************************************************)
Cur ==
  [scenes_ |-> scenes_, nodes_ |-> nodes_, textures_ |-> textures_,
   models_ |-> models_, sounds_ |-> sounds_,
   collide_models_ |-> collide_models_, materials_ |-> materials_,
   commands_pending_ |-> commands_pending_, commands_ |-> commands_,
   base_time_buffered_ |-> base_time_buffered_, base_time_ |-> base_time_,
   target_base_time_ |-> target_base_time_,
   current_cmd_ |-> current_cmd_, current_cmd_ptr_ |-> current_cmd_ptr_,
   shutting_down_ |-> shutting_down_, debug_build |-> debug_build,
   crashed |-> crashed, oob |-> oob, launch_calls |-> launch_calls,
   tick_log |-> tick_log, underrun_log |-> underrun_log,
   not_executed |-> not_executed, replay |-> replay, exc |-> ""]

\* The tick log is what the last operation executed: an operation other
\* than a dispatching Update leaves it empty.
Unlogged(s) ==
  [s EXCEPT !.tick_log = <<>>, !.underrun_log = <<>>,
            !.replay.fetch_log = <<>>, !.replay.sent = <<>>]

Install(s) ==
  /\ scenes_' = s.scenes_
  /\ nodes_' = s.nodes_
  /\ textures_' = s.textures_
  /\ models_' = s.models_
  /\ sounds_' = s.sounds_
  /\ collide_models_' = s.collide_models_
  /\ materials_' = s.materials_
  /\ commands_pending_' = s.commands_pending_
  /\ commands_' = s.commands_
  /\ base_time_buffered_' = s.base_time_buffered_
  /\ base_time_' = s.base_time_
  /\ target_base_time_' = s.target_base_time_
  /\ current_cmd_' = s.current_cmd_
  /\ current_cmd_ptr_' = s.current_cmd_ptr_
  /\ shutting_down_' = s.shutting_down_
  /\ debug_build' = s.debug_build
  /\ crashed' = s.crashed
  /\ oob' = s.oob
  /\ launch_calls' = s.launch_calls
  /\ tick_log' = s.tick_log
  /\ underrun_log' = s.underrun_log
  /\ not_executed' = s.not_executed
  /\ replay' = s.replay

Throw(s, msg) == [s EXCEPT !.exc = msg]

Crash(s) == [s EXCEPT !.crashed = TRUE]

\* assert(cond): compiled out of a release build, aborts a debug build.
AssertOk(s, cond) == IF s.debug_build /\ ~cond THEN Crash(s) ELSE s

\* An access to a byte outside its buffer is undefined: the process faults
\* (o.crash) or the access yields whatever byte lies there (o.byte).
OutOfBounds(s, o) ==
  IF o.crash THEN [s EXCEPT !.oob = TRUE, !.crashed = TRUE]
  ELSE [s EXCEPT !.oob = TRUE]

(***************************************************************************)
(* The binary cursor.  base = &(current_cmd_[0]); the guard of every read  *)
(* is  current_cmd_ptr_ > base + current_cmd_.size() - size,  which in     *)
(* offsets from base is  ptr > size() - size.  A read returns the session  *)
(* (cursor advanced, or exc set) and the value read.                       *)
(***************************************************************************)
CmdSize(s) == Len(s.current_cmd_)

\* The bytes memcpy reads: size bytes from the cursor on.
Span(s, size) ==
  [i \in 1..size |->
     IF s.current_cmd_ptr_ + i \in 1..CmdSize(s)
       THEN s.current_cmd_[s.current_cmd_ptr_ + i] ELSE 0]

SpanInside(s, size) ==
  s.current_cmd_ptr_ >= 0 /\ s.current_cmd_ptr_ + size <= CmdSize(s)

\* The guard and the copy shared by every fixed-span read: throws when the
\* guard fires, else copies size bytes and advances the cursor by size.
\* &(current_cmd_[0]) on an empty vector is undefined: with no storage the
\* base is null, the guard compares against a wrapped address and does not
\* fire, and the copy faults; with storage kept from an earlier command the
\* guard fires.
ReadSpan(s, size, o) ==
  IF CmdSize(s) = 0 /\ o.crash
    THEN [s |-> OutOfBounds(s, o), val |-> Zeros(size)]
  ELSE IF s.current_cmd_ptr_ > CmdSize(s) - size
    THEN [s |-> Throw(s, "state read error"), val |-> Zeros(size)]
  ELSE [s |-> [(IF SpanInside(s, size) THEN s ELSE OutOfBounds(s, o))
                 EXCEPT !.current_cmd_ptr_ = s.current_cmd_ptr_ + size],
        val |-> Span(s, size)]

ReadByte(s, o) ==
  LET Copied(r) == [s |-> r.s, val |-> r.val[1]] IN Copied(ReadSpan(s, 1, o))

ReadInt32(s, o) ==
  LET Copied(r) == [s |-> r.s, val |-> DecodeInt32(r.val)]
  IN Copied(ReadSpan(s, 4, o))

\* A float is kept as its four bytes.
ReadFloat(s, o) == ReadSpan(s, 4, o)

ReadFloats(s, count, o) == ReadSpan(s, 4 * count, o)

ReadInt32s(s, count, o) ==
  LET Copied(r) ==
        [s |-> r.s,
         val |-> [k \in 1..count |-> DecodeInt32(SubSeq(r.val, 4 * k - 3, 4 * k))]]
  IN Copied(ReadSpan(s, 4 * count, o))

ReadChars(s, count, o) == ReadSpan(s, count, o)

ReadInt32_2(s, o) ==
  LET Copied(r) ==
        [s |-> r.s,
         val |-> [k \in 1..2 |-> DecodeInt32(SubSeq(r.val, 4 * k - 3, 4 * k))]]
  IN Copied(ReadSpan(s, 2 * 4, o))

ReadInt32_3(s, o) ==
  LET Copied(r) ==
        [s |-> r.s,
         val |-> [k \in 1..3 |-> DecodeInt32(SubSeq(r.val, 4 * k - 3, 4 * k))]]
  IN Copied(ReadSpan(s, 3 * 4, o))

ReadInt32_4(s, o) ==
  LET Copied(r) ==
        [s |-> r.s,
         val |-> [k \in 1..4 |-> DecodeInt32(SubSeq(r.val, 4 * k - 3, 4 * k))]]
  IN Copied(ReadSpan(s, 4 * 4, o))

\* ReadString: the declared length is an int32.  buffer(size + 1) throws
\* (std::length_error) when size + 1 is negative as a size_t is huge;
\* INT_MAX + 1 wraps to a negative.  The guard against the bytes remaining
\* follows; a size of -1 passes both, and memcpy then copies
\* static_cast<size_t>(-1) bytes.
ReadString(s, o) ==
  LET Sized(s1, size) ==
    IF size = kInt32Max \/ size + 1 < 0
      THEN [s |-> Throw(s1, "vector length error"), val |-> <<>>]
    ELSE IF s1.current_cmd_ptr_ > CmdSize(s1) - size
      THEN [s |-> Throw(s1, "state read error"), val |-> <<>>]
    ELSE IF size < 0
      THEN [s |-> [OutOfBounds(s1, o)
                     EXCEPT !.current_cmd_ptr_ = s1.current_cmd_ptr_ + size],
            val |-> <<>>]
    ELSE [s |-> [(IF SpanInside(s1, size) THEN s1 ELSE OutOfBounds(s1, o))
                   EXCEPT !.current_cmd_ptr_ = s1.current_cmd_ptr_ + size],
          val |-> Span(s1, size)]
      Header(h) ==
        IF h.s.exc # "" \/ h.s.crashed THEN [s |-> h.s, val |-> <<>>]
        ELSE Sized(h.s, DecodeInt32(h.val))
  IN Header(ReadSpan(s, 4, o))

(***************************************************************************)
(* Reset, End, Error.                                                      *)
(***************************************************************************)
\* ClearSessionObjs leaving the entity table as it is.
ClearSessionObjs_KeepsNodes(s) ==
  [s EXCEPT !.scenes_ = EmptyTable,
            !.textures_ = EmptyTable, !.models_ = EmptyTable,
            !.sounds_ = EmptyTable, !.collide_models_ = EmptyTable,
            !.materials_ = EmptyTable,
            !.commands_pending_ = <<>>, !.commands_ = <<>>,
            !.base_time_buffered_ = 0, !.not_executed = <<>>]

ClearSessionObjs(s) ==
  [s EXCEPT !.scenes_ = EmptyTable, !.nodes_ = EmptyTable,
            !.textures_ = EmptyTable, !.models_ = EmptyTable,
            !.sounds_ = EmptyTable, !.collide_models_ = EmptyTable,
            !.materials_ = EmptyTable,
            !.commands_pending_ = <<>>, !.commands_ = <<>>,
            !.base_time_buffered_ = 0, !.not_executed = <<>>]

\* OnReset setting the target time to the time elapsed before the reset.
OnReset_TargetAtOldTime(s, rewind) ==
  [ClearSessionObjs(s) EXCEPT !.target_base_time_ = s.base_time_,
                              !.base_time_ = 0]

OnReset(s, rewind) ==
  [ClearSessionObjs(s) EXCEPT !.target_base_time_ = 0, !.base_time_ = 0]

\* End without its guard: every call pushes the main-menu call again.
End_Unguarded(s) ==
  [s EXCEPT !.shutting_down_ = TRUE, !.launch_calls = @ + 1]

\* End that also discards the session's objects and lists.
End_DiscardsObjs(s) ==
  IF s.shutting_down_ THEN s
  ELSE [ClearSessionObjs(s) EXCEPT !.shutting_down_ = TRUE,
                                   !.launch_calls = @ + 1]

End(s) ==
  IF s.shutting_down_ THEN s
  ELSE [s EXCEPT !.shutting_down_ = TRUE, !.launch_calls = @ + 1]

\* Error that only logs the description and leaves the session running.
Error_LogsOnly(s, description) == s

\* The file left open.
CloseFile_LeavesOpen(s) == s

\* fclose(file_); file_ = nullptr;
CloseFile(s) == [s EXCEPT !.replay.file_ = FALSE]

\* Error is virtual: a replay session closes its file (ReplayClientSession::
\* Error) and then responds as every session does.
Error(s, description) == End(IF s.replay.on THEN CloseFile(s) ELSE s)

(***************************************************************************)
(* The replay file.  fread(&x, n, 1, file_) succeeds when n bytes are left *)
(* and fails otherwise, with the position at the end of the file.          *)
(***************************************************************************)
kBrpFileID == 83749
kProtocolVersion == 33
kProtocolVersionMin == 24

FileU32(b) == b[1] + 256 * b[2] + 65536 * b[3] + 16777216 * b[4]

U32Bytes(u) ==
  <<u % 256, (u \div 256) % 256, (u \div 65536) % 256,
    (u \div 16777216) % 256>>

FReadOpen(s, n) ==
  IF s.replay.pos + n <= Len(s.replay.file.bytes)
    THEN [s |-> [s EXCEPT !.replay.pos = @ + n], ok |-> TRUE,
          val |-> SubSeq(s.replay.file.bytes, s.replay.pos + 1,
                         s.replay.pos + n)]
    ELSE [s |-> [s EXCEPT !.replay.pos = Len(s.replay.file.bytes)],
          ok |-> FALSE, val |-> <<>>]

\* One message sent to one client connection; via tells which code sent it.
SendReliableMessage(s, c, via, data) ==
  [s EXCEPT !.replay.sent = Append(@, [to |-> c, via |-> via, data |-> data])]

\* The message sent to the first connection only.
SendToClients_FirstOnly(s, via, data) ==
  IF s.replay.connections_to_clients_ = <<>> THEN s
  ELSE [s EXCEPT !.replay.sent =
          Append(@, [to |-> s.replay.connections_to_clients_[1],
                     via |-> via, data |-> data])]

\* for (auto&& i : connections_to_clients_) i->SendReliableMessage(data);
SendToClients(s, via, data) ==
  [s EXCEPT !.replay.sent =
     @ \o [k \in 1..Len(s.replay.connections_to_clients_) |->
             [to |-> s.replay.connections_to_clients_[k], via |-> via,
              data |-> data]]]

\* The version range with its upper end left out.
UnsupportedVersion_AtMaximum(version) ==
  version >= kProtocolVersion \/ version < kProtocolVersionMin

\* if (version > kProtocolVersion || version < kProtocolVersionMin)
UnsupportedVersion(version) ==
  version > kProtocolVersion \/ version < kProtocolVersionMin

\* ReplayClientSession::OnReset: the base reset, the reset told to the
\* clients, and on a rewind the file opened again and its header checked.
ReplayOnReset(s, rewind) ==
  LET Version(r) ==
        IF ~r.ok THEN Error(r.s, "error reading version")
        ELSE IF UnsupportedVersion(DecodeU16(r.val)) THEN End(r.s)
        ELSE r.s
      FileId(r) ==
        IF ~r.ok THEN Error(r.s, "error reading file_id")
        ELSE IF FileU32(r.val) # kBrpFileID
          THEN Error(r.s, "incorrect file_id")
        ELSE Version(FReadOpen(r.s, 2))
      Rewound(closed) ==
        IF ~closed.replay.file.exists
          THEN Error(closed, "can't open file for reading")
        ELSE FileId(FReadOpen([closed EXCEPT !.replay.file_ = TRUE,
                                             !.replay.pos = 0], 4))
      Told(told) == IF rewind THEN Rewound(CloseFile(told)) ELSE told
  IN Told(SendToClients(OnReset(s, rewind), "reset",
                        <<BA_MESSAGE_SESSION_RESET>>))

\* Reset calls the virtual OnReset.
Reset(s, rewind) ==
  LET a == AssertOk(s, ~s.shutting_down_) IN
  IF a.crashed THEN a
  ELSE IF a.replay.on THEN ReplayOnReset(a, rewind)
  ELSE OnReset(a, rewind)

(***************************************************************************)
(* AddCommand and HandleSessionMessage.                                    *)
(***************************************************************************)
\* Hook of the subclasses; the base session does nothing.
OnBaseTimeStepAdded(s, step) == s

\* AddCommand without the pending list: every command goes to the ready
\* list at once.
AddCommand_Unbuffered(s, command, o) ==
  [s EXCEPT !.commands_ = Append(@, command)]

\* command[1] is the low byte of the step size; a one-byte step command
\* has no command[1] and the read is out of bounds.
AddCommand(s, command, o) ==
  LET Flush(s3) == [s3 EXCEPT !.commands_ = @ \o s3.commands_pending_,
                              !.commands_pending_ = <<>>]
      Tally(s2, b) ==
        IF s2.crashed THEN s2
        ELSE Flush(OnBaseTimeStepAdded(
                     [s2 EXCEPT !.base_time_buffered_ = @ + b], b))
      Pushed(s1) ==
        IF command # <<>> /\ command[1] = kBaseTimeStep
          THEN IF Len(command) >= 2 THEN Tally(s1, command[2])
               ELSE Tally(OutOfBounds(s1, o), o.byte)
          ELSE s1
  IN Pushed([s EXCEPT !.commands_pending_ = Append(@, command),
                      !.not_executed = Append(@, command)])

\* buffer[i] for a 0-based i, or the stray byte when i is outside.
ByteAt(buffer, i, o) ==
  IF i >= 0 /\ i < Len(buffer) THEN buffer[i + 1] ELSE o.byte

BytesAt(buffer, i, n, o) == [k \in 1..n |-> ByteAt(buffer, i + k - 1, o)]

Touch(s, buffer, i, n, o) ==
  IF n = 0 \/ (i >= 0 /\ i + n <= Len(buffer)) THEN s ELSE OutOfBounds(s, o)

\* The COMMANDS case stopping after its first sub-record.
SessionCommandsLoop_FirstOnly(s, buffer, offset, o) ==
  LET Copied(s2, size) ==
        IF s2.crashed THEN s2
        ELSE AddCommand(s2, BytesAt(buffer, offset + 2, size, o), o)
      Sized(s1, size) ==
        IF s1.crashed THEN s1
        ELSE IF offset + size > Len(buffer)
          THEN Error(s1, "invalid state message")
        ELSE Copied(Touch(s1, buffer, offset + 2, size, o), size)
  IN Sized(Touch(s, buffer, offset, 2, o),
           DecodeU16(BytesAt(buffer, offset, 2, o)))

RECURSIVE SessionCommandsLoop_NoError(_, _, _, _)
\* The sub-record loop leaving on an overrun without raising the error.
SessionCommandsLoop_NoError(s, buffer, offset, o) ==
  LET Added(s3, next) ==
        IF s3.crashed \/ next = Len(buffer) THEN s3
        ELSE SessionCommandsLoop_NoError(s3, buffer, next, o)
      Copied(s2, size) ==
        IF s2.crashed THEN s2
        ELSE Added(AddCommand(s2, BytesAt(buffer, offset + 2, size, o), o),
                   offset + 2 + size)
      Sized(s1, size) ==
        IF s1.crashed THEN s1
        ELSE IF offset + size > Len(buffer) THEN s1
        ELSE Copied(Touch(s1, buffer, offset + 2, size, o), size)
  IN Sized(Touch(s, buffer, offset, 2, o),
           DecodeU16(BytesAt(buffer, offset, 2, o)))

\* The sub-record loop of the COMMANDS case, from a given offset.
RECURSIVE SessionCommandsLoop(_, _, _, _)
SessionCommandsLoop(s, buffer, offset, o) ==
  LET Added(s3, next) ==
        IF s3.crashed \/ next = Len(buffer) THEN s3
        ELSE SessionCommandsLoop(s3, buffer, next, o)
      Copied(s2, size) ==
        IF s2.crashed THEN s2
        ELSE Added(AddCommand(s2, BytesAt(buffer, offset + 2, size, o), o),
                   offset + 2 + size)
      Sized(s1, size) ==
        IF s1.crashed THEN s1
        ELSE IF offset + size > Len(buffer)
          THEN Error(s1, "invalid state message")
        ELSE Copied(Touch(s1, buffer, offset + 2, size, o), size)
  IN Sized(Touch(s, buffer, offset, 2, o),
           DecodeU16(BytesAt(buffer, offset, 2, o)))

\* The correction envelope queued with its kind byte left as it came.
HandleSessionMessage_KeepsKind(s, buffer, o) ==
  IF buffer = <<>> THEN Throw(s, "precondition failed: !buffer.empty()")
  ELSE IF buffer[1] = BA_MESSAGE_SESSION_RESET THEN Reset(s, FALSE)
  ELSE IF buffer[1] = BA_MESSAGE_SESSION_COMMANDS
    THEN SessionCommandsLoop(s, buffer, 1, o)
  ELSE IF buffer[1] = BA_MESSAGE_SESSION_DYNAMICS_CORRECTION
    THEN AddCommand(s, buffer, o)
  ELSE Throw(s, "got unrecognized message")

HandleSessionMessage(s, buffer, o) ==
  IF buffer = <<>> THEN Throw(s, "precondition failed: !buffer.empty()")
  ELSE IF buffer[1] = BA_MESSAGE_SESSION_RESET THEN Reset(s, FALSE)
  ELSE IF buffer[1] = BA_MESSAGE_SESSION_COMMANDS
    THEN SessionCommandsLoop(s, buffer, 1, o)
  ELSE IF buffer[1] = BA_MESSAGE_SESSION_DYNAMICS_CORRECTION
    THEN AddCommand(s, <<kDynamicsCorrection>> \o Tail(buffer), o)
  ELSE Throw(s, "got unrecognized message")

(***************************************************************************)
(* Lookups (GetScene .. GetCollideModel): the id must lie inside the       *)
(* table and name an occupied slot.                                        *)
(***************************************************************************)
Bad(s) == s.exc # "" \/ s.crashed

GetSlot(s, t, id, what) ==
  IF id < 0 \/ id >= t.size THEN Throw(s, "Invalid " \o what \o " (out of range)")
  ELSE IF ~Exists(t, id) THEN Throw(s, "Invalid " \o what \o " id (empty slot)")
  ELSE s

GetScene(s, id) == GetSlot(s, s.scenes_, id, "scene")
GetNode(s, id) == GetSlot(s, s.nodes_, id, "node")
GetMaterial(s, id) == GetSlot(s, s.materials_, id, "material")
GetTexture(s, id) == GetSlot(s, s.textures_, id, "texture")
GetModel(s, id) == GetSlot(s, s.models_, id, "model")
GetSound(s, id) == GetSlot(s, s.sounds_, id, "sound")
GetCollideModel(s, id) == GetSlot(s, s.collide_models_, id, "collide_model")

(***************************************************************************)
(* Collaborators, at their interface: a scene owns its nodes (the table    *)
(* holds weak references, so a destroyed scene empties its nodes' slots);  *)
(* a new node has one rigid body, index 0, at the origin.                  *)
(***************************************************************************)
NewScene(starttime, id) == [starttime |-> starttime, stream_id |-> id]

NewBody == [pos |-> <<0, 0, 0>>, blend |-> <<0, 0, 0>>]

NewNode(scene, type, id) ==
  [scene |-> scene, type |-> type, stream_id |-> id,
   bodies |-> [b \in {0} |-> NewBody], resync |-> <<>>]

DestroyScene(s, id) ==
  [s EXCEPT !.nodes_.occ =
     [i \in {k \in DOMAIN s.nodes_.occ : s.nodes_.occ[k].scene # id}
        |-> s.nodes_.occ[i]]]

(***************************************************************************)
(* The opcode handlers of Update, each entered with the cursor just after  *)
(* the opcode byte.                                                        *)
(***************************************************************************)
\* The step handler leaving elapsed time where it was.
BaseTimeStep_KeepsTime(s, o) ==
  LET Decoded(r) ==
        IF Bad(r.s) THEN r.s
        ELSE [r.s EXCEPT !.base_time_buffered_ = @ - r.val]
  IN Decoded(ReadInt32(s, o))

BaseTimeStep(s, o) ==
  LET Decoded(r) ==
        LET stepsize == r.val
        IN
        IF Bad(r.s) THEN r.s
        ELSE IF ~(stepsize > 0) THEN Throw(r.s, "precondition failed: stepsize > 0")
        ELSE IF stepsize > kMaxStepSize
          THEN Throw(r.s, "got abnormally large stepsize; probably a corrupt stream")
        ELSE
          LET s2 == [r.s EXCEPT !.base_time_buffered_ = @ - stepsize] IN
          IF ~(s2.base_time_buffered_ >= 0)
            THEN Throw(s2, "precondition failed: base_time_buffered_ >= 0")
            ELSE [s2 EXCEPT !.base_time_ = @ + stepsize]
  IN Decoded(ReadInt32(s, o))

\* The end-of-file command resetting without the rewind flag.
EndOfFile_NoRewind(s, o) == Reset(s, FALSE)

EndOfFile(s, o) == Reset(s, TRUE)

AddSceneGraph(s, o) ==
  LET Decoded(r) ==
        LET id == r.val[1]
            starttime == r.val[2]
        IN
        IF Bad(r.s) THEN r.s
        ELSE IF id < 0 \/ id > kMaxSceneId THEN Throw(r.s, "invalid scene id")
        ELSE
          LET s1 == [r.s EXCEPT !.scenes_ = ResizeUpTo(@, id)]
              s2 == AssertOk(s1, ~Exists(s1.scenes_, id))
          IN
          IF s2.crashed THEN s2
          ELSE LET s3 == IF Exists(s2.scenes_, id) THEN DestroyScene(s2, id) ELSE s2
               IN [s3 EXCEPT !.scenes_ = Put(@, id, NewScene(starttime, id))]
  IN Decoded(ReadInt32_2(s, o))

RemoveSceneGraph(s, o) ==
  LET Decoded(r) ==
        LET id == r.val
        IN
        IF Bad(r.s) THEN r.s
        ELSE LET g == GetScene(r.s, id) IN
             IF Bad(g) THEN g
             ELSE [DestroyScene(g, id) EXCEPT !.scenes_ = ClearSlot(@, id)]
  IN Decoded(ReadInt32(s, o))

StepSceneGraph(s, o) ==
  LET Decoded(r) ==
        IF Bad(r.s) THEN r.s ELSE GetScene(r.s, r.val)
  IN Decoded(ReadInt32(s, o))

\* The entity id check rejecting the upper bound itself.
InvalidNodeId_AtBound(id) == id < 0 \/ id >= kMaxNodeId

\* if (id < 0 || id > 10000)
InvalidNodeId(id) == id < 0 \/ id > kMaxNodeId

AddNode(s, o) ==
  LET Decoded(r) ==
        LET vals == r.val
            id == vals[3]
        IN
        IF Bad(r.s) THEN r.s
        ELSE LET g == GetScene(r.s, vals[1]) IN
          IF Bad(g) THEN g
          ELSE IF vals[2] < 0 \/ vals[2] >= kNodeTypeCount
            THEN Throw(g, "invalid node type id")
          ELSE IF InvalidNodeId(id) THEN Throw(g, "invalid node id")
          ELSE
            LET s1 == [g EXCEPT !.nodes_ = ResizeUpTo(@, id)]
                s2 == AssertOk(s1, ~Exists(s1.nodes_, id))
            IN
            IF s2.crashed THEN s2
            ELSE [s2 EXCEPT !.nodes_ = Put(@, id, NewNode(vals[1], vals[2], id))]
  IN Decoded(ReadInt32_3(s, o))

SetForegroundSceneGraph(s, o) ==
  LET Decoded(r) ==
        IF Bad(r.s) THEN r.s ELSE GetScene(r.s, r.val)
  IN Decoded(ReadInt32(s, o))

NodeOnCreate(s, o) ==
  LET Decoded(r) ==
        IF Bad(r.s) THEN r.s ELSE GetNode(r.s, r.val)
  IN Decoded(ReadInt32(s, o))

RemoveNode(s, o) ==
  LET Decoded(r) ==
        LET id == r.val
        IN
        IF Bad(r.s) THEN r.s
        ELSE LET g == GetNode(r.s, id) IN
             IF Bad(g) THEN g ELSE [g EXCEPT !.nodes_ = ClearSlot(@, id)]
  IN Decoded(ReadInt32(s, o))

AddMaterial(s, o) ==
  LET Decoded(r) ==
        LET vals == r.val
            id == vals[2]
        IN
        IF Bad(r.s) THEN r.s
        ELSE LET g == GetScene(r.s, vals[1]) IN
          IF Bad(g) THEN g
          ELSE IF vals[2] < 0 \/ vals[2] >= kAssetIdLimit
            THEN Throw(g, "invalid material id")
          ELSE
            LET s1 == [g EXCEPT !.materials_ = ResizeUpTo(@, id)]
                s2 == AssertOk(s1, ~Exists(s1.materials_, id))
            IN
            IF s2.crashed THEN s2
            ELSE [s2 EXCEPT !.materials_ =
                    Put(@, id, [scene |-> vals[1], stream_id |-> id,
                                components |-> <<>>])]
  IN Decoded(ReadInt32_2(s, o))

RemoveMaterial(s, o) ==
  LET Decoded(r) ==
        LET id == r.val
        IN
        IF Bad(r.s) THEN r.s
        ELSE LET g == GetMaterial(r.s, id) IN
             IF Bad(g) THEN g ELSE [g EXCEPT !.materials_ = ClearSlot(@, id)]
  IN Decoded(ReadInt32(s, o))

\* kAddTexture, kAddModel, kAddSound, kAddCollideModel differ in the table
\* (the field f of the session) only.
AddAsset(s, o, f, what) ==
  LET Decoded(r) ==
        LET vals == r.val
            id == vals[2]
        IN
        IF Bad(r.s) THEN r.s
        ELSE LET Named(n) ==
          IF Bad(n.s) THEN n.s
          ELSE LET g == GetScene(n.s, vals[1]) IN
            IF Bad(g) THEN g
            ELSE IF vals[2] < 0 \/ vals[2] >= kAssetIdLimit
              THEN Throw(g, "invalid " \o what \o " id")
            ELSE
              LET s1 == [g EXCEPT ![f] = ResizeUpTo(@, id)]
                  s2 == AssertOk(s1, ~Exists(s1[f], id))
              IN
              IF s2.crashed THEN s2
              ELSE [s2 EXCEPT ![f] =
                      Put(@, id, [name |-> n.val, scene |-> vals[1],
                                  stream_id |-> id])]
             IN Named(ReadString(r.s, o))
  IN Decoded(ReadInt32_2(s, o))

RemoveAsset(s, o, f, what) ==
  LET Decoded(r) ==
        LET id == r.val
        IN
        IF Bad(r.s) THEN r.s
        ELSE LET g == GetSlot(r.s, r.s[f], id, what) IN
             IF Bad(g) THEN g ELSE [g EXCEPT ![f] = ClearSlot(@, id)]
  IN Decoded(ReadInt32(s, o))

AddTexture(s, o) == AddAsset(s, o, "textures_", "texture")
RemoveTexture(s, o) == RemoveAsset(s, o, "textures_", "texture")
AddModel(s, o) == AddAsset(s, o, "models_", "model")
RemoveModel(s, o) == RemoveAsset(s, o, "models_", "model")
AddSound(s, o) == AddAsset(s, o, "sounds_", "sound")
RemoveSound(s, o) == RemoveAsset(s, o, "sounds_", "sound")
AddCollideModel(s, o) == AddAsset(s, o, "collide_models_", "collide_model")
RemoveCollideModel(s, o) ==
  RemoveAsset(s, o, "collide_models_", "collide_model")

(***************************************************************************)
(* kDynamicsCorrection.  The packet is walked with a plain offset into     *)
(* current_cmd_, not with the cursor; c is the walk: the session, the      *)
(* offset, and n, the id of the entity at hand (-1 for a null pointer).    *)
(***************************************************************************)
CmdByte(s, i, o) == ByteAt(s.current_cmd_, i, o)

CmdBytes(s, i, n, o) == BytesAt(s.current_cmd_, i, n, o)

CmdTouch(s, i, n, o) == Touch(s, s.current_cmd_, i, n, o)

\* RigidBody::ExtractFull: takes the body's state from the bytes at p2 and
\* advances p2 past them.
ExtractFull(s, n, bodyid, offset, o) ==
  [CmdTouch(s, offset, kBodyFullSize, o)
     EXCEPT !.nodes_.occ[n].bodies[bodyid].pos =
              CmdBytes(s, offset, kBodyFullSize, o)]

\* AddBlendOffset with the sign of the offset turned round.
AddBlendOffset_Subtracts(s, n, bodyid, d) ==
  [s EXCEPT !.nodes_.occ[n].bodies[bodyid].blend =
              [k \in 1..3 |-> @[k] - d[k]]]

AddBlendOffset(s, n, bodyid, d) ==
  [s EXCEPT !.nodes_.occ[n].bodies[bodyid].blend =
              [k \in 1..3 |-> @[k] + d[k]]]

ApplyResyncData(s, n, data) == [s EXCEPT !.nodes_.occ[n].resync = data]

\* One pass of the inner loop: body j of the entity.
CorrectionBody(s, n, offset, blend, o) ==
  LET s1 == CmdTouch(s, offset, 1, o)
      bodyid == CmdByte(s, offset, o)
      s2 == CmdTouch(s1, offset + 1, 2, o)
      body_data_len == DecodeU16(CmdBytes(s, offset + 1, 2, o))
      b == n # -1 /\ bodyid \in DOMAIN s.nodes_.occ[n].bodies
      off3 == offset + 3
  IN
  IF s2.crashed THEN [s |-> s2, offset |-> off3]
  ELSE
    LET s3 ==
          IF ~b THEN s2
          ELSE LET old == s2.nodes_.occ[n].bodies[bodyid].pos
                   e == ExtractFull(s2, n, bodyid, off3, o)
                   new == e.nodes_.occ[n].bodies[bodyid].pos
               IN IF e.crashed THEN e
                  ELSE IF kBodyFullSize # body_data_len
                    THEN Throw(e, "Invalid rbd correction data")
                  ELSE IF blend
                    THEN AddBlendOffset(e, n, bodyid,
                                        [k \in 1..3 |-> old[k] - new[k]])
                  ELSE e
        off4 == off3 + body_data_len
    IN
    IF Bad(s3) THEN [s |-> s3, offset |-> off3]
    ELSE IF off4 > CmdSize(s3)
      THEN [s |-> Throw(s3, "Invalid rbd correction data"), offset |-> off4]
    ELSE [s |-> s3, offset |-> off4]

RECURSIVE CorrectionBodies(_, _, _, _, _, _)
CorrectionBodies(s, n, body_count, offset, blend, o) ==
  IF body_count = 0 THEN [s |-> s, offset |-> offset]
  ELSE LET Done(c) ==
             IF Bad(c.s) THEN c
             ELSE CorrectionBodies(c.s, n, body_count - 1, c.offset, blend, o)
       IN Done(CorrectionBody(s, n, offset, blend, o))

\* One pass of the outer loop: one entity, its bodies and its custom data.
CorrectionNode(s, offset, blend, o) ==
  LET s1 == CmdTouch(s, offset, 4, o)
      node_id == DecodeU32(CmdBytes(s, offset, 4, o))
      s2 == CmdTouch(s1, offset + 4, 1, o)
      body_count == CmdByte(s, offset + 4, o)
      n == IF U32Less(node_id, s.nodes_.size) /\ Exists(s.nodes_, node_id)
             THEN node_id ELSE -1
  IN
  IF s2.crashed THEN [s |-> s2, offset |-> offset + 5]
  ELSE
    LET Bodies(c) ==
    IF Bad(c.s) THEN c
    ELSE IF c.offset > CmdSize(c.s)
      THEN [s |-> Throw(c.s, "Invalid rbd correction data"),
            offset |-> c.offset]
    ELSE
      LET s3 == CmdTouch(c.s, c.offset, 2, o)
          custom_data_len == DecodeU16(CmdBytes(c.s, c.offset, 2, o))
          off2 == c.offset + 2
          s4 == IF custom_data_len = 0 \/ s3.crashed THEN s3
                ELSE CmdTouch(s3, off2, custom_data_len, o)
          s5 == IF custom_data_len = 0 \/ s4.crashed \/ n = -1 THEN s4
                ELSE ApplyResyncData(s4, n,
                                     CmdBytes(s4, off2, custom_data_len, o))
          off3 == off2 + custom_data_len
      IN
      IF s5.crashed THEN [s |-> s5, offset |-> off3]
      ELSE IF off3 > CmdSize(s5)
        THEN [s |-> Throw(s5, "Invalid rbd correction data"),
              offset |-> off3]
      ELSE [s |-> s5, offset |-> off3]
    IN Bodies(CorrectionBodies(s2, n, body_count, offset + 5, blend, o))

RECURSIVE CorrectionNodes(_, _, _, _, _)
CorrectionNodes(s, node_count, offset, blend, o) ==
  IF node_count = 0 THEN [s |-> s, offset |-> offset]
  ELSE LET Done(c) ==
             IF Bad(c.s) THEN c
             ELSE CorrectionNodes(c.s, node_count - 1, c.offset, blend, o)
       IN Done(CorrectionNode(s, offset, blend, o))

DynamicsCorrection(s, o) ==
  LET s1 == CmdTouch(s, 1, 1, o)
      blend == CmdByte(s, 1, o) # 0
      s2 == IF s1.crashed THEN s1 ELSE CmdTouch(s1, 2, 2, o)
      node_count == DecodeU16(CmdBytes(s, 2, 2, o))
  IN
  IF s2.crashed THEN s2
  ELSE LET Walked(c) ==
             IF Bad(c.s) THEN c.s
             ELSE IF c.offset # CmdSize(c.s)
               THEN Throw(c.s, "invalid rbd correction data")
             ELSE [c.s EXCEPT !.current_cmd_ptr_ = c.offset]
       IN Walked(CorrectionNodes(s2, node_count, 4, blend, o))

(***************************************************************************)
(* Update.                                                                 *)
(***************************************************************************)
(***************************************************************************)
(* The replay feeder.                                                      *)
(***************************************************************************)
\* round(advance_in * pow(2, replay_speed_exponent)), advance_in >= 0.
ReplayTimeAdvance(s, advance_in) ==
  IF s.replay.replay_speed_exponent >= 0
    THEN advance_in * 2 ^ s.replay.replay_speed_exponent
    ELSE (2 * advance_in + 2 ^ (0 - s.replay.replay_speed_exponent))
           \div (2 * 2 ^ (0 - s.replay.replay_speed_exponent))

\* The target time held at the time elapsed: the replay pauses.
ResetTargetBaseTime(s) == [s EXCEPT !.target_base_time_ = s.base_time_]

\* The end-of-file command, put on the ready list.
add_end_of_file_command(s) ==
  [s EXCEPT !.commands_ = Append(@, <<kEndOfFile>>),
            !.not_executed =
              Append(s.commands_, <<kEndOfFile>>) \o s.commands_pending_]

\* A stored frame is a flag byte followed by the message; the files of the
\* model hold stored frames only.
Decompress(buffer) == Tail(buffer)

\* fread on file_: a null file_ is undefined (a fault, or a failed read).
FRead(s, n, o) ==
  IF s.replay.file_ THEN FReadOpen(s, n)
  ELSE [s |-> OutOfBounds(s, o), ok |-> FALSE, val |-> <<>>]

\* The end of the stream without the end-of-file command.
EndOfStream_NoSentinel(s, o) ==
  IF s.replay.file_ THEN CloseFile(s) ELSE OutOfBounds(s, o)

\* add_end_of_file_command(); fclose(file_); file_ = nullptr;
EndOfStream(s, o) ==
  IF s.replay.file_ THEN CloseFile(add_end_of_file_command(s))
  ELSE OutOfBounds(add_end_of_file_command(s), o)

\* What the fetch log keeps of one pass of the loop: where the record
\* starts, whether the file was open and whether the session was shutting
\* down then, the length decoded (-1 when
\* none was), the frame read, the message handed to HandleSessionMessage,
\* how the pass ended, and the ready list and the file (open or not) as
\* the pass left them.
FetchLogged(s, pos0, len, frame, message, outcome) ==
  [s EXCEPT !.replay.fetch_log =
     Append(@, [pos0 |-> pos0.pos, open0 |-> pos0.file_,
                down0 |-> pos0.shutting_down_, len |-> len,
                frame |-> frame, message |-> message, outcome |-> outcome,
                ready |-> s.commands_, open |-> s.replay.file_])]

\* The mark of a length held in a later 16-bit field taken as a length.
IsShortLength_Through254(len8) == len8 <= 254

\* if (len8 < 254)
IsShortLength(len8) == len8 < 254

\* while (commands().empty()) { ... }
RECURSIVE ReplayFetchLoop(_, _)
ReplayFetchLoop(s, o) ==
  LET pos0 == [pos |-> s.replay.pos, file_ |-> s.replay.file_,
               shutting_down_ |-> s.shutting_down_]
      Failed(f, len) ==
        IF f.crashed THEN f
        ELSE FetchLogged(EndOfStream(f, o), pos0, len, <<>>, <<>>, "eof")
      Handled(h, len, frame) ==
        IF h.crashed THEN h
        ELSE IF h.exc # ""
          THEN FetchLogged(h, pos0, len, frame, Decompress(frame), "thrown")
        ELSE ReplayFetchLoop(
               FetchLogged(SendToClients(h, "forward", Decompress(frame)),
                       pos0, len, frame, Decompress(frame), "frame"), o)
      Payload(r, len) ==
        IF ~r.ok THEN Failed(r.s, len)
        ELSE Handled(HandleSessionMessage(r.s, Decompress(r.val), o),
                     len, r.val)
      Sized(a, len32) ==
        IF a.crashed THEN a
        ELSE IF ~(len32 > 0)
          THEN Throw(FetchLogged(a, pos0, len32, <<>>, <<>>, "thrown"),
                     "precondition failed: len32 > 0")
        ELSE Payload(FRead(a, len32, o), len32)
      Len16(r) ==
        IF ~r.ok THEN Failed(r.s, -1)
        ELSE Sized(AssertOk(r.s, DecodeU16(r.val) >= 254), DecodeU16(r.val))
      Len32(r) ==
        IF ~r.ok THEN Failed(r.s, -1)
        ELSE Sized(AssertOk(r.s, FileU32(r.val) > 65535), FileU32(r.val))
      Len8(r) ==
        IF ~r.ok THEN Failed(r.s, -1)
        ELSE IF IsShortLength(r.val[1]) THEN Sized(r.s, r.val[1])
        ELSE IF r.val[1] = 254 THEN Len16(FRead(r.s, 2, o))
        ELSE Len32(FRead(r.s, 4, o))
  IN IF s.commands_ # <<>> THEN s ELSE Len8(FRead(s, 1, o))

ReplayFetchMessages(s, o) ==
  IF ~s.replay.file_ \/ s.shutting_down_ THEN s ELSE ReplayFetchLoop(s, o)

(***************************************************************************)
(* Commands and envelopes as the stream encodes them.                      *)
(***************************************************************************)
StepCmd(size) == <<kBaseTimeStep>> \o Int32Bytes(size)

AddSceneGraphCmd(id, starttime) ==
  <<kAddSceneGraph>> \o Int32Bytes(id) \o Int32Bytes(starttime)

RemoveSceneGraphCmd(id) == <<kRemoveSceneGraph>> \o Int32Bytes(id)

AddNodeCmd(scene, type, id) ==
  <<kAddNode>> \o Int32Bytes(scene) \o Int32Bytes(type) \o Int32Bytes(id)

RemoveNodeCmd(id) == <<kRemoveNode>> \o Int32Bytes(id)

AddMaterialCmd(scene, id) ==
  <<kAddMaterial>> \o Int32Bytes(scene) \o Int32Bytes(id)

AddTextureCmd(scene, id, len, name) ==
  <<kAddTexture>> \o Int32Bytes(scene) \o Int32Bytes(id) \o Int32Bytes(len)
    \o name

RemoveTextureCmd(id) == <<kRemoveTexture>> \o Int32Bytes(id)

\* kAddTexture, kAddModel, kAddSound and kAddCollideModel share one layout.
AddAssetCmd(opcode, scene, id, name) ==
  <<opcode>> \o Int32Bytes(scene) \o Int32Bytes(id) \o Int32Bytes(Len(name))
    \o name

\* A COMMANDS envelope: each command behind its 16-bit length.
RECURSIVE SubRecords(_)
SubRecords(cmds) ==
  IF cmds = <<>> THEN <<>>
  ELSE U16Bytes(Len(Head(cmds))) \o Head(cmds) \o SubRecords(Tail(cmds))

CommandsMsg(cmds) == <<BA_MESSAGE_SESSION_COMMANDS>> \o SubRecords(cmds)

(***************************************************************************)
(* DumpFullState.  The dump is kept as the calls made on the collaborators *)
(* (Scene::Dump, SceneStream::AddMaterial .. AddCollideModel,              *)
(* Scene::DumpNodes, Material::DumpComponents), in the order made; each    *)
(* call writes the create commands of what it dumps.                       *)
(***************************************************************************)
\* The occupied ids of a table from id on, ascending: for (auto&& i : t)
\* if (i.get()).
RECURSIVE OccupiedFrom(_, _)
OccupiedFrom(t, id) ==
  IF id >= t.size THEN <<>>
  ELSE (IF Exists(t, id) THEN <<id>> ELSE <<>>) \o OccupiedFrom(t, id + 1)

\* One call per occupied slot of a table.
DumpCalls(call, t) ==
  [k \in 1..Len(OccupiedFrom(t, 0)) |->
     [call |-> call, id |-> OccupiedFrom(t, 0)[k]]]

\* The dump with each material's components written along with it.
DumpFullState_ComponentsFirst(s) ==
  DumpCalls("Scene::Dump", s.scenes_)
    \o DumpCalls("Material::DumpComponents", s.materials_)
    \o DumpCalls("AddMaterial", s.materials_)
    \o DumpCalls("AddTexture", s.textures_)
    \o DumpCalls("AddModel", s.models_)
    \o DumpCalls("AddSound", s.sounds_)
    \o DumpCalls("AddCollideModel", s.collide_models_)
    \o DumpCalls("Scene::DumpNodes", s.scenes_)

\* The dump with the nodes written before the scenes.
DumpFullState_NodesFirst(s) ==
  DumpCalls("Scene::DumpNodes", s.scenes_)
    \o DumpCalls("Scene::Dump", s.scenes_)
    \o DumpCalls("AddMaterial", s.materials_)
    \o DumpCalls("AddTexture", s.textures_)
    \o DumpCalls("AddModel", s.models_)
    \o DumpCalls("AddSound", s.sounds_)
    \o DumpCalls("AddCollideModel", s.collide_models_)
    \o DumpCalls("Material::DumpComponents", s.materials_)

DumpFullState(s) ==
  DumpCalls("Scene::Dump", s.scenes_)
    \o DumpCalls("AddMaterial", s.materials_)
    \o DumpCalls("AddTexture", s.textures_)
    \o DumpCalls("AddModel", s.models_)
    \o DumpCalls("AddSound", s.sounds_)
    \o DumpCalls("AddCollideModel", s.collide_models_)
    \o DumpCalls("Scene::DumpNodes", s.scenes_)
    \o DumpCalls("Material::DumpComponents", s.materials_)

\* The ids of the nodes of a scene, ascending.
NodesOf(s, scene) ==
  SelectSeq(OccupiedFrom(s.nodes_, 0),
            LAMBDA id : s.nodes_.occ[id].scene = scene)

\* The commands one call writes: the create command of the object with its
\* id (an asset with its name, a material and an asset with the id of
\* their scene), for DumpNodes the create command of each node of the
\* scene, for DumpComponents one command per component.
Written(s, c) ==
  IF c.call = "Scene::Dump"
    THEN <<AddSceneGraphCmd(c.id, s.scenes_.occ[c.id].starttime)>>
  ELSE IF c.call = "AddMaterial"
    THEN <<AddMaterialCmd(s.materials_.occ[c.id].scene, c.id)>>
  ELSE IF c.call = "AddTexture"
    THEN <<AddAssetCmd(kAddTexture, s.textures_.occ[c.id].scene, c.id,
                       s.textures_.occ[c.id].name)>>
  ELSE IF c.call = "AddModel"
    THEN <<AddAssetCmd(kAddModel, s.models_.occ[c.id].scene, c.id,
                       s.models_.occ[c.id].name)>>
  ELSE IF c.call = "AddSound"
    THEN <<AddAssetCmd(kAddSound, s.sounds_.occ[c.id].scene, c.id,
                       s.sounds_.occ[c.id].name)>>
  ELSE IF c.call = "AddCollideModel"
    THEN <<AddAssetCmd(kAddCollideModel, s.collide_models_.occ[c.id].scene,
                       c.id, s.collide_models_.occ[c.id].name)>>
  ELSE IF c.call = "Scene::DumpNodes"
    THEN [k \in 1..Len(NodesOf(s, c.id)) |->
            AddNodeCmd(c.id, s.nodes_.occ[NodesOf(s, c.id)[k]].type,
                       NodesOf(s, c.id)[k])]
  ELSE <<>>

RECURSIVE WrittenBy(_, _)
WrittenBy(s, calls) ==
  IF calls = <<>> THEN <<>>
  ELSE Written(s, Head(calls)) \o WrittenBy(s, Tail(calls))

\* The commands of the dump, in the order written.
DumpCommands(s) == WrittenBy(s, DumpFullState(s))

Tables(s) ==
  [scenes_ |-> s.scenes_, nodes_ |-> s.nodes_, textures_ |-> s.textures_,
   models_ |-> s.models_, sounds_ |-> s.sounds_,
   collide_models_ |-> s.collide_models_, materials_ |-> s.materials_]

\* out.GetOutMessage(): empty when nothing was written, and otherwise the
\* COMMANDS envelope of the commands written.
OutMessage(s) ==
  IF DumpCommands(s) = <<>> THEN <<>> ELSE CommandsMsg(DumpCommands(s))

\* The messages of GetCorrectionMessages(blend = false): one while an
\* entity exists, of which only the kind and the blend flag are kept.
CorrectionMessages(s) ==
  IF s.nodes_ = EmptyTable THEN <<>>
  ELSE << <<BA_MESSAGE_SESSION_DYNAMICS_CORRECTION, 0>> >>

RECURSIVE SendEachToClients(_, _)
SendEachToClients(s, messages) ==
  IF messages = <<>> THEN s
  ELSE SendEachToClients(SendToClients(s, "attach", Head(messages)),
                         Tail(messages))

\* OnClientConnected without its check for a connection already listed.
OnClientConnected_Unchecked(s, c) ==
  LET Dumped(p) ==
        IF OutMessage(p) # <<>>
          THEN SendReliableMessage(p, c, "attach", OutMessage(p))
          ELSE p
  IN SendEachToClients(
       Dumped([s EXCEPT !.replay.connections_to_clients_ = Append(@, c)]),
       CorrectionMessages(s))

OnClientConnected(s, c) ==
  LET Dumped(p) ==
        IF OutMessage(p) # <<>>
          THEN SendReliableMessage(p, c, "attach", OutMessage(p))
          ELSE p
  IN
  IF \E k \in DOMAIN s.replay.connections_to_clients_ :
       s.replay.connections_to_clients_[k] = c
    THEN s
  ELSE SendEachToClients(
         Dumped([s EXCEPT !.replay.connections_to_clients_ = Append(@, c)]),
         CorrectionMessages(s))

OnClientDisconnected(s, c) ==
  [s EXCEPT !.replay.connections_to_clients_ =
     SelectSeq(@, LAMBDA i : i # c)]

(***************************************************************************)
(* The hooks of Update: virtual, a replay session has its own.             *)
(***************************************************************************)
GetActualTimeAdvance(s, time_advance) ==
  IF s.replay.on THEN ReplayTimeAdvance(s, time_advance) ELSE time_advance

FetchMessages(s, o) == IF s.replay.on THEN ReplayFetchMessages(s, o) ELSE s

OnCommandBufferUnderrun(s) ==
  IF s.replay.on THEN ResetTargetBaseTime(s) ELSE s

\* ReadByte and the switch over the opcode.
Dispatch(s, o) ==
  LET Decoded(r) ==
        LET cmd == r.val
        IN
        IF Bad(r.s) THEN r.s
        ELSE CASE cmd = kBaseTimeStep -> BaseTimeStep(r.s, o)
               [] cmd = kDynamicsCorrection -> DynamicsCorrection(r.s, o)
               [] cmd = kEndOfFile -> EndOfFile(r.s, o)
               [] cmd = kAddSceneGraph -> AddSceneGraph(r.s, o)
               [] cmd = kRemoveSceneGraph -> RemoveSceneGraph(r.s, o)
               [] cmd = kStepSceneGraph -> StepSceneGraph(r.s, o)
               [] cmd = kAddNode -> AddNode(r.s, o)
               [] cmd = kSetForegroundSceneGraph -> SetForegroundSceneGraph(r.s, o)
               [] cmd = kNodeOnCreate -> NodeOnCreate(r.s, o)
               [] cmd = kAddMaterial -> AddMaterial(r.s, o)
               [] cmd = kRemoveMaterial -> RemoveMaterial(r.s, o)
               [] cmd = kAddTexture -> AddTexture(r.s, o)
               [] cmd = kRemoveTexture -> RemoveTexture(r.s, o)
               [] cmd = kAddModel -> AddModel(r.s, o)
               [] cmd = kRemoveModel -> RemoveModel(r.s, o)
               [] cmd = kAddSound -> AddSound(r.s, o)
               [] cmd = kRemoveSound -> RemoveSound(r.s, o)
               [] cmd = kAddCollideModel -> AddCollideModel(r.s, o)
               [] cmd = kRemoveCollideModel -> RemoveCollideModel(r.s, o)
               [] cmd = kRemoveNode -> RemoveNode(r.s, o)
               [] OTHER -> Throw(r.s, "unrecognized stream command")
  IN Decoded(ReadByte(s, o))

\* What the tick log keeps of one executed command: the command, how it
\* ended (an exception, a fault, an access outside the command buffer), the
\* time counters before and after it, the command that was due (the oldest
\* one passed to AddCommand and not executed yet, <<-1>> when there is none),
\* and the tables as it found and as it left them.
LogEntry(before, after) ==
  [cmd |-> before.current_cmd_,
   thrown |-> after.exc # "", crashed |-> after.crashed, oob |-> after.oob,
   time0 |-> before.base_time_, time1 |-> after.base_time_,
   target0 |-> before.target_base_time_,
   due |-> IF before.not_executed = <<>> THEN <<-1>>
           ELSE Head(before.not_executed),
   buffered0 |-> before.base_time_buffered_,
   buffered1 |-> after.base_time_buffered_,
   tables0 |-> Tables(before), tables1 |-> Tables(after)]

\* The while loop of Update with its try/catch: a thrown exception leaves
\* the loop through Error.  Each command is dispatched with a clean
\* out-of-bounds mark, so that the log tells what this command did.
\* The newest command pulled from the ready list instead of the oldest.
PullCommand_Newest(s) ==
  [s EXCEPT !.current_cmd_ = s.commands_[Len(s.commands_)],
            !.commands_ = SubSeq(s.commands_, 1, Len(s.commands_) - 1),
            !.current_cmd_ptr_ = 0]

\* current_cmd_ = commands_.front(); commands_.pop_front(); and the cursor
\* set to the start of current_cmd_.
PullCommand(s) ==
  [s EXCEPT !.current_cmd_ = Head(s.commands_),
            !.commands_ = Tail(s.commands_),
            !.current_cmd_ptr_ = 0]

\* The loop's condition never true: the tick returns without a pass.
BehindTarget_Never(s) == FALSE

\* The loop's condition fetching a command while time has reached the
\* target too.
BehindTarget_OrAt(s) == s.base_time_ <= s.target_base_time_

\* while (base_time_ < target_base_time_)
BehindTarget(s) == s.base_time_ < s.target_base_time_

RECURSIVE UpdateLoop(_, _)
UpdateLoop(s, o) ==
  LET Ran(s1, r) ==
        LET logged == [r EXCEPT !.tick_log = Append(@, LogEntry(s1, r)),
                                !.oob = s1.oob \/ r.oob]
        IN
        IF r.crashed THEN logged
        ELSE IF r.exc # "" THEN Error([logged EXCEPT !.exc = ""], r.exc)
        ELSE UpdateLoop(logged, o)
      Pulled(s1) ==
        Ran(s1, Dispatch([s1 EXCEPT !.oob = FALSE,
                                    !.not_executed =
                                      IF @ = <<>> THEN @ ELSE Tail(@)], o))
      Checked(a) == IF a.crashed THEN a ELSE Pulled(PullCommand(a))
      Fetched(f) ==
        IF f.crashed THEN f
        ELSE IF f.exc # "" THEN Error([f EXCEPT !.exc = ""], f.exc)
        ELSE IF f.commands_ = <<>>
          THEN OnCommandBufferUnderrun(
                 [f EXCEPT !.underrun_log = Append(@, Len(f.tick_log))])
        ELSE Checked(AssertOk(f, f.current_cmd_ptr_ = CmdSize(f)))
  IN
  IF ~BehindTarget(s) THEN s
  ELSE Fetched(FetchMessages(s, o))

Update(s, time_advance, o) ==
  IF s.shutting_down_ THEN s
  ELSE
    LET adv == GetActualTimeAdvance(s, time_advance) IN
    UpdateLoop([s EXCEPT !.target_base_time_ = @ + adv * consume_rate_,
                         !.tick_log = <<>>, !.underrun_log = <<>>,
                         !.replay.fetch_log = <<>>, !.replay.sent = <<>>], o)

(***************************************************************************)
(* The inputs of the specifications.                                        *)
(***************************************************************************)
\* A DYNAMICS_CORRECTION envelope for one entity with one body.
CorrectionMsg(blend, node_id, bodyid, len, payload, custom) ==
  <<BA_MESSAGE_SESSION_DYNAMICS_CORRECTION, blend>> \o U16Bytes(1)
    \o Int32Bytes(node_id) \o <<1, bodyid>> \o U16Bytes(len) \o payload
    \o U16Bytes(Len(custom)) \o custom

FeedTime ==
  [cmds |-> {StepCmd(16), StepCmd(256), StepCmd(0), StepCmd(10001),
             <<kBaseTimeStep>>, <<kEndOfFile>>},
   msgs |-> {<<BA_MESSAGE_SESSION_RESET>>,
             CommandsMsg(<<StepCmd(16)>>),
             <<BA_MESSAGE_SESSION_COMMANDS>>,
             <<kUnknownMessage>>}]

FeedRegistry ==
  [cmds |-> {AddSceneGraphCmd(0, 0), AddNodeCmd(0, 5, 0),
             RemoveSceneGraphCmd(0), AddMaterialCmd(0, 0),
             <<kUnknownCommand>>, <<>>, StepCmd(16), <<kEndOfFile>>},
   msgs |-> {<<BA_MESSAGE_SESSION_RESET>>,
             CommandsMsg(<<AddSceneGraphCmd(0, 0), StepCmd(16)>>)}]

FeedCorrection ==
  [cmds |-> {StepCmd(16)},
   msgs |-> {CommandsMsg(<<AddSceneGraphCmd(0, 0), StepCmd(16)>>),
             CommandsMsg(<<AddNodeCmd(0, 5, 0), StepCmd(16)>>),
             CorrectionMsg(1, 0, 0, 3, <<1, 2, 3>>, <<>>),
             CorrectionMsg(0, 0, 0, 3, <<4, 5, 6>>, <<9>>),
             CorrectionMsg(1, 0, 0, 2, <<1, 2>>, <<>>),
             CorrectionMsg(1, 0, 0, 3, <<1, 2>>, <<>>),
             <<BA_MESSAGE_SESSION_DYNAMICS_CORRECTION>>,
             <<BA_MESSAGE_SESSION_DYNAMICS_CORRECTION, 0, 1, 0>>,
             <<BA_MESSAGE_SESSION_DYNAMICS_CORRECTION, 0, 0, 0, 9>>}]

\* Creates and removes at the ends of each table's id range, one table per
\* feed.
FeedNodeBounds ==
  [cmds |-> {AddSceneGraphCmd(0, 0), AddNodeCmd(0, 5, kMaxNodeId),
             AddNodeCmd(0, 5, kMaxNodeId + 1), RemoveNodeCmd(kMaxNodeId),
             RemoveNodeCmd(3), StepCmd(16)},
   msgs |-> {}]

FeedSceneBounds ==
  [cmds |-> {AddSceneGraphCmd(kMaxSceneId, 0),
             AddSceneGraphCmd(kMaxSceneId + 1, 0), AddSceneGraphCmd(7, 0),
             RemoveSceneGraphCmd(kMaxSceneId), RemoveSceneGraphCmd(7),
             StepCmd(16)},
   msgs |-> {}]

FeedMaterialBounds ==
  [cmds |-> {AddSceneGraphCmd(0, 0), AddMaterialCmd(0, kAssetIdLimit - 1),
             AddMaterialCmd(0, kAssetIdLimit),
             <<kRemoveMaterial>> \o Int32Bytes(kAssetIdLimit - 1),
             StepCmd(16)},
   msgs |-> {<<BA_MESSAGE_SESSION_RESET>>}]

FeedTextureBounds ==
  [cmds |-> {AddSceneGraphCmd(0, 0),
             AddTextureCmd(0, kAssetIdLimit - 1, 1, <<65>>),
             AddTextureCmd(0, kAssetIdLimit, 1, <<65>>),
             RemoveTextureCmd(kAssetIdLimit - 1), StepCmd(16)},
   msgs |-> {}]

\* One envelope that builds a scene with one entity and advances one step,
\* an envelope whose first command is a step command without a size, and
\* correction envelopes.
\* Envelopes that build and unbuild a world: two scenes with objects of
\* every kind, ids with gaps, and the removal of a scene that still has a
\* node, a material and a texture.
FeedWorld ==
  [cmds |-> {StepCmd(16)},
   msgs |-> {CommandsMsg(<<AddSceneGraphCmd(0, 0), AddMaterialCmd(0, 0),
                           AddAssetCmd(kAddTexture, 0, 0, <<7>>),
                           AddNodeCmd(0, 5, 0), StepCmd(16)>>),
             CommandsMsg(<<AddSceneGraphCmd(1, 0),
                           AddAssetCmd(kAddModel, 1, 1, <<>>),
                           AddAssetCmd(kAddSound, 1, 0, <<8>>),
                           AddAssetCmd(kAddCollideModel, 1, 2, <<>>),
                           AddNodeCmd(1, 5, 2), AddMaterialCmd(1, 2),
                           StepCmd(16)>>),
             CommandsMsg(<<RemoveSceneGraphCmd(0), StepCmd(16)>>)},
   queue |-> MaxWorld]

FeedEnvelope ==
  [cmds |-> {StepCmd(16)},
   msgs |-> {CommandsMsg(<<AddSceneGraphCmd(0, 0), AddNodeCmd(0, 5, 0),
                           StepCmd(16)>>),
             CommandsMsg(<<<<kBaseTimeStep>>, AddSceneGraphCmd(0, 0)>>),
             CorrectionMsg(0, 0, 0, 3, <<4, 5, 6>>, <<>>),
             <<BA_MESSAGE_SESSION_DYNAMICS_CORRECTION>>},
   queue |-> MaxEnvelope]

BoundFeeds ==
  {FeedNodeBounds, FeedSceneBounds, FeedMaterialBounds, FeedTextureBounds}

NoFeed == [cmds |-> {}, msgs |-> {}]

Advances == {16, 32}

StrayBytes == {0, 3}

Oracles ==
  {[crash |-> TRUE, byte |-> 0]} \cup [crash : {FALSE}, byte : StrayBytes]

(***************************************************************************)
(* The session state machine.                                              *)
(***************************************************************************)
\* What rd keeps of a cursor read: the read, its argument (the element
\* count, or the length a string declares), the span it asks for (of a
\* string, the length header), the buffer size, the cursor before and
\* after, and how it ended.
NoRead ==
  [op |-> "none", arg |-> 0, size |-> 0, len |-> 0, pos0 |-> 0, pos1 |-> 0,
   thrown |-> FALSE, oob |-> FALSE, crashed |-> FALSE]

\* A session that is no replay: no file, no client connections.
NoReplay ==
  [on |-> FALSE, file |-> [exists |-> FALSE, bytes |-> <<>>],
   replay_speed_exponent |-> 0, file_ |-> FALSE, pos |-> 0,
   connections_to_clients_ |-> <<>>, fetch_log |-> <<>>, sent |-> <<>>,
   startup |-> [running |-> FALSE, file_ |-> FALSE, pos |-> 0]]

\* The state the constructor leaves.
InitSession ==
  /\ scenes_ = EmptyTable
  /\ nodes_ = EmptyTable
  /\ textures_ = EmptyTable
  /\ models_ = EmptyTable
  /\ sounds_ = EmptyTable
  /\ collide_models_ = EmptyTable
  /\ materials_ = EmptyTable
  /\ commands_pending_ = <<>>
  /\ commands_ = <<>>
  /\ base_time_buffered_ = 0
  /\ base_time_ = 0
  /\ target_base_time_ = 0
  /\ shutting_down_ = FALSE
  /\ crashed = FALSE
  /\ oob = FALSE
  /\ launch_calls = 0
  /\ tick_log = <<>>
  /\ underrun_log = <<>>
  /\ not_executed = <<>>
  /\ replay = NoReplay
  /\ ticks = 0

InitFed(f) ==
  /\ InitSession
  /\ current_cmd_ = <<>>
  /\ current_cmd_ptr_ = 0
  /\ debug_build \in BOOLEAN
  /\ feed = f
  /\ rd = NoRead

Init == InitFed(FeedTime)

InitRegistry == InitFed(FeedRegistry)

InitCorrection == InitFed(FeedCorrection)

InitBounds == \E f \in BoundFeeds : InitFed(f)

\* The commands a session may hold: as many as the feed's longest envelope
\* carries, MaxQueue when the feed does not say.
QueueBound == IF "queue" \in DOMAIN feed THEN feed.queue ELSE MaxQueue

QueueOk(s) == Len(s.commands_pending_) + Len(s.commands_) <= QueueBound

AddCommandAct ==
  /\ ~crashed
  /\ \E c \in feed.cmds, o \in Oracles :
       LET r == AddCommand(Unlogged(Cur), c, o) IN QueueOk(r) /\ Install(r)
  /\ UNCHANGED <<feed, rd, ticks>>

HandleSessionMessageAct ==
  /\ ~crashed
  /\ \E m \in feed.msgs, o \in Oracles :
       LET r == HandleSessionMessage(Unlogged(Cur), m, o)
       IN QueueOk(r) /\ Install(r)
  /\ UNCHANGED <<feed, rd, ticks>>

UpdateAct ==
  /\ ~crashed
  /\ \E time_advance \in Advances, o \in Oracles :
       /\ shutting_down_ \/ target_base_time_ + time_advance <= MaxTime
       /\ Install(Update(Cur, time_advance, o))
  /\ ticks' = IF replay.on THEN 1 - ticks ELSE ticks
  /\ UNCHANGED <<feed, rd>>

ResetAct ==
  /\ ~crashed
  /\ ~shutting_down_
  /\ \E rewind \in BOOLEAN : Install(Reset(Unlogged(Cur), rewind))
  /\ UNCHANGED <<feed, rd, ticks>>

EndAct ==
  /\ ~crashed
  /\ Install(End(Unlogged(Cur)))
  /\ UNCHANGED <<feed, rd, ticks>>

ErrorAct ==
  /\ ~crashed
  /\ Install(Error(Unlogged(Cur), "connection error"))
  /\ UNCHANGED <<feed, rd, ticks>>

Next ==
  \/ AddCommandAct
  \/ HandleSessionMessageAct
  \/ UpdateAct
  \/ ResetAct
  \/ EndAct
  \/ ErrorAct

Spec == Init /\ [][Next]_vars

SpecRegistry == InitRegistry /\ [][Next]_vars

SpecCorrection == InitCorrection /\ [][Next]_vars

SpecBounds == InitBounds /\ [][Next]_vars

InitEnvelope == InitFed(FeedEnvelope)

InitWorld == InitFed(FeedWorld)

SpecEnvelope == InitEnvelope /\ [][Next]_vars

SpecWorld == InitWorld /\ [][Next]_vars

(***************************************************************************)
(* The cursor reads on their own: any buffer, any cursor position in it,   *)
(* any read.                                                               *)
(***************************************************************************)
Fill(n) == [i \in 1..n |-> 7]

StringSizes == {-2, -1, 0, 1, MaxBuf, MaxBuf + 1, kInt32Max}

CursorBufs ==
  {SubSeq(Int32Bytes(size) \o Fill(MaxBuf), 1, n) :
     size \in StringSizes, n \in 0..(4 + MaxBuf)}
  \cup {Zeros(n) : n \in 0..(16 + MaxBuf)}

InitCursor ==
  /\ InitSession
  /\ current_cmd_ \in CursorBufs
  /\ current_cmd_ptr_ \in 0..Len(current_cmd_)
  /\ debug_build = FALSE
  /\ feed = NoFeed
  /\ rd = NoRead

\* The read starts with a clean out-of-bounds mark, so that rd tells what
\* this read did.
Fresh == [Cur EXCEPT !.oob = FALSE]

DeclaredSize ==
  IF current_cmd_ptr_ + 4 <= Len(current_cmd_)
    THEN DecodeInt32(SubSeq(current_cmd_, current_cmd_ptr_ + 1,
                            current_cmd_ptr_ + 4))
    ELSE 0

InstallRead(op, arg, size, after) ==
  /\ Install([after EXCEPT !.oob = oob \/ after.oob])
  /\ rd' = [op |-> op, arg |-> arg, size |-> size,
            len |-> Len(current_cmd_),
            pos0 |-> current_cmd_ptr_, pos1 |-> after.current_cmd_ptr_,
            thrown |-> after.exc # "", oob |-> after.oob,
            crashed |-> after.crashed]
  /\ UNCHANGED <<feed, ticks>>

ReadByteAct ==
  ~crashed /\ \E o \in Oracles :
    InstallRead("ReadByte", 1, 1, ReadByte(Fresh, o).s)

ReadInt32Act ==
  ~crashed /\ \E o \in Oracles :
    InstallRead("ReadInt32", 1, 4, ReadInt32(Fresh, o).s)

ReadFloatAct ==
  ~crashed /\ \E o \in Oracles :
    InstallRead("ReadFloat", 1, 4, ReadFloat(Fresh, o).s)

ReadFloatsAct ==
  ~crashed /\ \E o \in Oracles, count \in 1..MaxCount :
    InstallRead("ReadFloats", count, 4 * count, ReadFloats(Fresh, count, o).s)

ReadInt32sAct ==
  ~crashed /\ \E o \in Oracles, count \in 1..MaxCount :
    InstallRead("ReadInt32s", count, 4 * count, ReadInt32s(Fresh, count, o).s)

ReadCharsAct ==
  ~crashed /\ \E o \in Oracles, count \in 1..MaxCount :
    InstallRead("ReadChars", count, count, ReadChars(Fresh, count, o).s)

ReadInt32_2Act ==
  ~crashed /\ \E o \in Oracles :
    InstallRead("ReadInt32_2", 2, 8, ReadInt32_2(Fresh, o).s)

ReadInt32_3Act ==
  ~crashed /\ \E o \in Oracles :
    InstallRead("ReadInt32_3", 3, 12, ReadInt32_3(Fresh, o).s)

ReadInt32_4Act ==
  ~crashed /\ \E o \in Oracles :
    InstallRead("ReadInt32_4", 4, 16, ReadInt32_4(Fresh, o).s)

ReadStringAct ==
  ~crashed /\ \E o \in Oracles :
    InstallRead("ReadString", DeclaredSize, 4, ReadString(Fresh, o).s)

NextCursor ==
  \/ ReadByteAct
  \/ ReadInt32Act
  \/ ReadFloatAct
  \/ ReadFloatsAct
  \/ ReadInt32sAct
  \/ ReadCharsAct
  \/ ReadInt32_2Act
  \/ ReadInt32_3Act
  \/ ReadInt32_4Act
  \/ ReadStringAct

SpecCursor == InitCursor /\ [][NextCursor]_vars

(***************************************************************************)
(* The replay session: constructed on a file, ticked, ended, with client   *)
(* connections coming and going.                                           *)
(***************************************************************************)
Header(version) == U32Bytes(kBrpFileID) \o U16Bytes(version)

\* A record of fewer than 254 bytes holding a stored frame.
StoredFrame(message) == <<Len(message) + 1, 0>> \o message

File(bytes) == [exists |-> TRUE, bytes |-> bytes]

NoSuchFile == [exists |-> FALSE, bytes |-> <<>>]

\* A scene with one entity and one step, then one more step.
PlayFile ==
  File(Header(kProtocolVersion)
         \o StoredFrame(CommandsMsg(<<AddSceneGraphCmd(0, 0),
                                       AddNodeCmd(0, 5, 0), StepCmd(16)>>))
         \o StoredFrame(CommandsMsg(<<StepCmd(16)>>)))

\* One frame of 254 bytes behind a 16-bit length: a RESET message padded
\* with zeros.
LongFile ==
  File(Header(kProtocolVersionMin) \o <<254>> \o U16Bytes(254) \o <<0>>
         \o <<BA_MESSAGE_SESSION_RESET>> \o Zeros(252))

\* An end-of-file command recorded in the stream, with a step queued
\* behind it.
SentinelFile ==
  File(Header(kProtocolVersion)
         \o StoredFrame(CommandsMsg(<<<<kEndOfFile>>, StepCmd(16)>>)))

\* Lengths behind the 254 and 255 marks that would have fitted the shorter
\* form.
ShortLen16File ==
  File(Header(kProtocolVersion) \o <<254>> \o U16Bytes(9) \o <<0>>
         \o CommandsMsg(<<StepCmd(16)>>))

ShortLen32File ==
  File(Header(kProtocolVersion) \o <<255>> \o U32Bytes(9) \o <<0>>
         \o CommandsMsg(<<StepCmd(16)>>))

\* Files that end inside a length or inside a payload.
TruncatedFiles ==
  {File(Header(kProtocolVersion)),
   File(Header(kProtocolVersion) \o <<254, 1>>),
   File(Header(kProtocolVersion) \o <<255, 1, 0>>),
   File(Header(kProtocolVersion) \o <<5, 0, 1>>)}

\* A record of length 0, behind each of the three marks.
ZeroLengthFiles ==
  {File(Header(kProtocolVersion) \o <<0>>),
   File(Header(kProtocolVersion) \o <<254, 0, 0>>),
   File(Header(kProtocolVersion) \o <<255, 0, 0, 0, 0>>)}

\* Frames HandleSessionMessage refuses: an unknown kind (an exception) and
\* a COMMANDS message whose sub-record overruns it (Error).
RefusedFiles ==
  {File(Header(kProtocolVersion) \o StoredFrame(<<kUnknownMessage>>)),
   File(Header(kProtocolVersion)
          \o StoredFrame(<<BA_MESSAGE_SESSION_COMMANDS, 9, 0>>))}

\* Headers: missing file, no file id, wrong file id, no version, and the
\* versions around both ends of the supported range.
VersionsTried ==
  {kProtocolVersionMin - 1, kProtocolVersionMin, kProtocolVersion,
   kProtocolVersion + 1}

HeaderFiles ==
  {NoSuchFile, File(<<>>), File(<<1, 2>>),
   File(U32Bytes(kBrpFileID + 1) \o U16Bytes(kProtocolVersion)
          \o StoredFrame(CommandsMsg(<<StepCmd(16)>>))),
   File(U32Bytes(kBrpFileID)), File(U32Bytes(kBrpFileID) \o <<kProtocolVersion>>)}
    \cup {File(Header(v) \o StoredFrame(CommandsMsg(<<StepCmd(16)>>))) :
            v \in VersionsTried}

ReplayFiles ==
  {PlayFile, LongFile, SentinelFile, ShortLen16File, ShortLen32File}
    \cup TruncatedFiles \cup ZeroLengthFiles \cup RefusedFiles
    \cup HeaderFiles

SpeedExponents == {-1, 0}

Clients == {1, 2}

\* The members a session has before its constructor's body runs.
NewSession(r, debug) ==
  [scenes_ |-> EmptyTable, nodes_ |-> EmptyTable, textures_ |-> EmptyTable,
   models_ |-> EmptyTable, sounds_ |-> EmptyTable,
   collide_models_ |-> EmptyTable, materials_ |-> EmptyTable,
   commands_pending_ |-> <<>>, commands_ |-> <<>>,
   base_time_buffered_ |-> 0, base_time_ |-> 0, target_base_time_ |-> 0,
   current_cmd_ |-> <<>>, current_cmd_ptr_ |-> 0,
   shutting_down_ |-> FALSE, debug_build |-> debug,
   crashed |-> FALSE, oob |-> FALSE, launch_calls |-> 0,
   tick_log |-> <<>>, underrun_log |-> <<>>, not_executed |-> <<>>,
   replay |-> r, exc |-> ""]

\* What the constructor left, kept in startup: the session running or not,
\* the file open or not, and the file position.
Constructed(s) ==
  [s EXCEPT !.replay.startup =
     [running |-> ~s.shutting_down_, file_ |-> s.replay.file_,
      pos |-> s.replay.pos]]

\* ReplayClientSession::ReplayClientSession(filename): Reset(true).
ReplayClientSession(file, exponent, debug) ==
  Constructed(
    Reset(NewSession([NoReplay EXCEPT !.on = TRUE, !.file = file,
                                      !.replay_speed_exponent = exponent],
                     debug), TRUE))

\* The session is in state s.
Holds(s) ==
  /\ scenes_ = s.scenes_ /\ nodes_ = s.nodes_ /\ textures_ = s.textures_
  /\ models_ = s.models_ /\ sounds_ = s.sounds_
  /\ collide_models_ = s.collide_models_ /\ materials_ = s.materials_
  /\ commands_pending_ = s.commands_pending_ /\ commands_ = s.commands_
  /\ base_time_buffered_ = s.base_time_buffered_
  /\ base_time_ = s.base_time_ /\ target_base_time_ = s.target_base_time_
  /\ current_cmd_ = s.current_cmd_ /\ current_cmd_ptr_ = s.current_cmd_ptr_
  /\ shutting_down_ = s.shutting_down_ /\ debug_build = s.debug_build
  /\ crashed = s.crashed /\ oob = s.oob /\ launch_calls = s.launch_calls
  /\ tick_log = s.tick_log /\ underrun_log = s.underrun_log
  /\ not_executed = s.not_executed /\ replay = s.replay

InitReplay ==
  /\ \E file \in ReplayFiles, exponent \in SpeedExponents, debug \in BOOLEAN :
       Holds(ReplayClientSession(file, exponent, debug))
  /\ ticks = 0
  /\ feed = NoFeed
  /\ rd = NoRead

OnClientConnectedAct ==
  /\ ~crashed
  /\ \E c \in Clients : Install(OnClientConnected(Unlogged(Cur), c))
  /\ UNCHANGED <<feed, rd, ticks>>

OnClientDisconnectedAct ==
  /\ ~crashed
  /\ \E c \in Clients : Install(OnClientDisconnected(Unlogged(Cur), c))
  /\ UNCHANGED <<feed, rd, ticks>>

NextReplay ==
  \/ UpdateAct
  \/ OnClientConnectedAct
  \/ OnClientDisconnectedAct
  \/ EndAct

SpecReplay == InitReplay /\ [][NextReplay]_vars

\* The next tick of a replay, told by the parity of the ticks alone: it can
\* arrive exactly when Update can run, and only Update changes the parity.
TickArrives ==
  /\ ~crashed
  /\ \E time_advance \in Advances :
       shutting_down_ \/ target_base_time_ + time_advance <= MaxTime
  /\ ticks' = 1 - ticks

\* The logic thread keeps ticking the session.
SpecReplayFair == SpecReplay /\ WF_ticks(TickArrives)

(***************************************************************************)
(* The claims.                                                             *)
(***************************************************************************)
IsStep(command) == command # <<>> /\ command[1] = kBaseTimeStep

Last(q) == q[Len(q)]

\* C1, the lists at rest, in a process that is running: a non-empty ready
\* list ends with a step command and the pending list holds no step command.
C1_Lists ==
  ~crashed =>
    /\ commands_ # <<>> => IsStep(Last(commands_))
    /\ \A i \in DOMAIN commands_pending_ : ~IsStep(commands_pending_[i])

\* C1, the move: when commands are added to the ready list, what is added
\* is the whole pending list and the commands that arrived, up to and
\* including a step command, and every command that stays behind is in the
\* pending list.
C1_Move ==
  Len(commands_') > Len(commands_) =>
    \E k \in 1..(Len(commands_) + 1) :
      /\ \A i \in 1..(Len(commands_) - k + 1) :
           commands_'[i] = commands_[k + i - 1]
      /\ LET kept == Len(commands_) - k + 1
             added == SubSeq(commands_', kept + 1, Len(commands_'))
         IN /\ Len(added) > Len(commands_pending_)
            /\ SubSeq(added, 1, Len(commands_pending_)) = commands_pending_
            /\ IsStep(Last(added))

\* C1: the ready list only ever ends at a step boundary: a ready list that
\* is not empty ends with a step command, a command that is not a step
\* enters the ready list only together with the step command closing its
\* step, and the pending list never holds a step command.
C1_ReadyListEndsAtStep == [](C1_Lists) /\ [][C1_Move]_vars

\* C1 witness: a command that is not a step sits in the ready list, in
\* front of the step command that closed its step.
C1_Witness ==
  /\ Len(commands_) >= 2
  /\ ~IsStep(commands_[1])
  /\ IsStep(commands_[2])
  /\ ~shutting_down_ /\ ~crashed

\* A step command as the stream writes it: the opcode and an int32 size.
IsWholeStep(command) == IsStep(command) /\ Len(command) = 5

StepSizeOf(command) == DecodeInt32(SubSeq(command, 2, 5))

\* C2: every step command with a size s from 1 to 10000 that was queued
\* through AddCommand executes successfully: it takes s off
\* base_time_buffered_ and adds s to base_time_.
C2_StepInRangeSucceeds ==
  \A i \in DOMAIN tick_log :
    LET e == tick_log[i]
        size == StepSizeOf(e.cmd)
    IN (IsWholeStep(e.cmd) /\ size >= 1 /\ size <= kMaxStepSize) =>
         /\ ~e.thrown
         /\ e.buffered1 = e.buffered0 - size
         /\ e.time1 = e.time0 + size

\* C3: base_time_buffered_ is never negative, and a step command with a
\* size of 0 or less, or above 10000, is rejected: the session is
\* terminated and elapsed time is as it was.
C3_BufferedNeverNegative ==
  ~crashed =>
    /\ base_time_buffered_ >= 0
    /\ \A i \in DOMAIN tick_log :
         LET e == tick_log[i]
             size == StepSizeOf(e.cmd)
         IN (IsWholeStep(e.cmd) /\ (size <= 0 \/ size > kMaxStepSize)) =>
              e.thrown /\ shutting_down_ /\ e.time1 = e.time0

FixedSpanReads ==
  {"ReadByte", "ReadInt32", "ReadFloat", "ReadFloats", "ReadInt32s",
   "ReadChars", "ReadInt32_2", "ReadInt32_3", "ReadInt32_4"}

\* C4: each primitive read raises the failure and reads nothing when its
\* span is larger than what remains of the current command buffer, and
\* otherwise advances the cursor by exactly its span; it never reads a byte
\* outside the buffer.
C4_ReadsStayInside ==
  rd.op \in FixedSpanReads =>
    /\ ~rd.oob /\ ~rd.crashed
    /\ IF rd.size > rd.len - rd.pos0
         THEN rd.thrown /\ rd.pos1 = rd.pos0
         ELSE ~rd.thrown /\ rd.pos1 = rd.pos0 + rd.size

\* C5: ReadString, once its four-byte length is read, raises the failure
\* when the declared length is negative or larger than the bytes that
\* remain, and otherwise reads exactly that many bytes; it never reads a
\* byte outside the buffer.
C5_StringLengthChecked ==
  (rd.op = "ReadString" /\ rd.len - rd.pos0 >= 4) =>
    /\ ~rd.oob /\ ~rd.crashed
    /\ IF rd.arg < 0 \/ rd.arg > rd.len - rd.pos0 - 4
         THEN rd.thrown
         ELSE ~rd.thrown /\ rd.pos1 = rd.pos0 + 4 + rd.arg

\* C6: decoding a dynamics-correction command never reads a byte before
\* the start or past the end of its buffer, for every buffer of at least
\* one byte.
C6_CorrectionReadsInside ==
  \A i \in DOMAIN tick_log :
    LET e == tick_log[i] IN
    (e.cmd # <<>> /\ e.cmd[1] = kDynamicsCorrection) =>
      ~e.oob /\ ~e.crashed

\* C7, within the tick: a command that raised a failure is the last command
\* the tick executed, and the session is terminated.
C7_FailureIsLast ==
  \A i \in DOMAIN tick_log :
    tick_log[i].thrown => (i = Len(tick_log) /\ shutting_down_)

\* C7, the later ticks: once the session is terminated no operation
\* executes a command; the log of executed commands is left as it is or
\* emptied, and the current command and the cursor in it stay where the
\* failure left them.
C7_NothingExecutedLater ==
  shutting_down_ =>
    /\ tick_log' = tick_log \/ tick_log' = <<>>
    /\ current_cmd_' = current_cmd_
    /\ current_cmd_ptr_' = current_cmd_ptr_

\* C7: a failure raised while one tick's commands are processed, whatever
\* its kind, terminates the session: no command that follows the failing
\* one is executed in that tick or in any later tick.
C7_FailureTerminates == [](C7_FailureIsLast) /\ [][C7_NothingExecutedLater]_vars

\* C7 witness: a tick stopped at a command that raised a failure, with a
\* command still waiting in the ready list behind it.
C7_Witness ==
  /\ tick_log # <<>>
  /\ Last(tick_log).thrown
  /\ commands_ # <<>>
  /\ shutting_down_ /\ ~crashed

\* C8, at rest: the main-menu call was pushed once if the session is
\* terminated and never if it is not, and Update on a terminated session
\* changes nothing, whatever the time advance.
C8_PushedOnce ==
  ~crashed =>
    /\ launch_calls = (IF shutting_down_ THEN 1 ELSE 0)
    /\ shutting_down_ =>
         \A time_advance \in Advances, o \in Oracles :
           Update(Cur, time_advance, o) = Cur

\* C8, the flag: no operation clears shutting_down_ once it is set.
C8_NeverReverts == shutting_down_ => shutting_down_'

\* C8: once shutting_down_ is true it never becomes false again, the
\* launch-main-menu call is pushed to the script layer at most once per
\* session, and every later Update is a no-op.
C8_TerminationIsFinal == [](C8_PushedOnce) /\ [][C8_NeverReverts]_vars

\* C8 witness: a terminated session with commands still in its ready list
\* and the main-menu call pushed once.
C8_Witness ==
  /\ shutting_down_ /\ ~crashed
  /\ launch_calls = 1
  /\ commands_ # <<>>
  /\ target_base_time_ > 0

\* C9: once the session is terminated, no operation (HandleSessionMessage
\* and AddCommand among them) changes the pending list, the ready list or
\* base_time_buffered_.
C9_Unchanged ==
  (shutting_down_ /\ ~crashed /\ ~crashed') =>
    UNCHANGED <<commands_pending_, commands_, base_time_buffered_>>

C9_NoEffectAfterShutdown == [][C9_Unchanged]_vars

AnyOccupied(tables) ==
  \E name \in DOMAIN tables : DOMAIN tables[name].occ # {}

C11_Returned(r) ==
  /\ \A i \in DOMAIN r.tick_log :
       r.tick_log[i].time0 < r.tick_log[i].target0
  /\ (~r.shutting_down_ /\ ~r.crashed) =>
       IF r.underrun_log = <<>>
         THEN r.base_time_ >= r.target_base_time_
         ELSE /\ r.underrun_log = <<Len(r.tick_log)>>
              /\ r.commands_ = <<>>

\* C11: an Update tick that returns without terminating the session has
\* either brought base_time_ to target_base_time_ or found the ready list
\* empty, and then it called OnCommandBufferUnderrun exactly once and
\* executed no command after the call; and no tick fetches a command while
\* base_time_ is at or past target_base_time_.
C11_TickEndsAtTargetOrUnderrun ==
  ~crashed =>
    \A time_advance \in Advances, o \in Oracles :
      C11_Returned(Update(Cur, time_advance, o))

\* C11 witness: a tick executed a command, found the ready list empty
\* short of the target and called the hook.
C11_Witness ==
  /\ tick_log # <<>>
  /\ underrun_log = <<Len(tick_log)>>
  /\ base_time_ < target_base_time_
  /\ ~shutting_down_ /\ ~crashed

\* C12: with no reset in between, the commands Update executes are the
\* commands passed to AddCommand, in the order passed, none skipped,
\* duplicated or reordered: every command executed is the oldest command
\* passed to AddCommand since the last reset that was not executed before.
C12_ExecutedInOrderAdded ==
  \A i \in DOMAIN tick_log : tick_log[i].cmd = tick_log[i].due

\* C12 witness: one tick executed two different commands that were passed
\* to AddCommand one after the other.
C12_Witness ==
  /\ Len(tick_log) >= 2
  /\ tick_log[1].cmd # tick_log[2].cmd
  /\ tick_log[2].cmd # <<kEndOfFile>>
  /\ ~crashed

\* The cleared state: every registry table empty, both lists empty, and the
\* three time counters zero.
Cleared(s) ==
  /\ \A name \in DOMAIN Tables(s) : Tables(s)[name] = EmptyTable
  /\ s.commands_pending_ = <<>> /\ s.commands_ = <<>>
  /\ s.base_time_buffered_ = 0 /\ s.base_time_ = 0 /\ s.target_base_time_ = 0

\* C13: from every reachable state that is not shutting down, Reset called
\* twice in a row leaves the session in the state one call leaves it in, and
\* that state is the cleared one.
C13_ResetIdempotent ==
  (~shutting_down_ /\ ~crashed) =>
    \A first \in BOOLEAN, second \in BOOLEAN :
      /\ Reset(Reset(Cur, first), second) = Reset(Cur, first)
      /\ Cleared(Reset(Cur, first))

\* C13 witness: a running session with an occupied table, a command in each
\* list and all three time counters positive, on which Reset acts.
C13_Witness ==
  /\ ~shutting_down_ /\ ~crashed
  /\ AnyOccupied(Tables(Cur))
  /\ commands_ # <<>> /\ commands_pending_ # <<>>
  /\ base_time_ > 0 /\ target_base_time_ > 0 /\ base_time_buffered_ > 0
  /\ ~Cleared(Cur) /\ Cleared(Reset(Reset(Cur, TRUE), TRUE))

\* A reset by the RESET envelope leaves the cleared state.
C14_ResetEnvelopeClears ==
  ~crashed => \A o \in Oracles :
    LET r == HandleSessionMessage(Cur, <<BA_MESSAGE_SESSION_RESET>>, o)
    IN ~r.crashed => Cleared(r)

\* A reset by the end-of-file command leaves the cleared state.
C14_EndOfFileClears ==
  (tick_log # <<>> /\ Last(tick_log).cmd = <<kEndOfFile>> /\ ~crashed) =>
    Cleared(Cur)

Ran(s, cmd) ==
  LET Logged(before) ==
        LogEntry(before, Dispatch(before, CHOOSE o \in Oracles : TRUE))
  IN Logged([s EXCEPT !.current_cmd_ = cmd, !.current_cmd_ptr_ = 0,
                      !.oob = FALSE])

\* The k-th int32 operand of a logged command.
Arg(e, k) == DecodeInt32(SubSeq(e.cmd, 4 * k - 2, 4 * k + 1))

\* The logged command is opcode op followed by n int32 operands (and more,
\* when it carries a string).
IsCmd(e, op, n) == Len(e.cmd) >= 1 + 4 * n /\ e.cmd[1] = op

NodeIdsTried == {-1, 0, kMaxNodeId, kMaxNodeId + 1}

C15_Entry(e) ==
  IsCmd(e, kAddNode, 3) =>
    /\ (Arg(e, 3) < 0 \/ Arg(e, 3) > kMaxNodeId) =>
         /\ e.thrown /\ ~e.crashed
         /\ e.tables1 = e.tables0
    /\ ( /\ Arg(e, 3) = kMaxNodeId
         /\ Exists(e.tables0.scenes_, Arg(e, 1))
         /\ Arg(e, 2) \in 0..(kNodeTypeCount - 1)
         /\ ~Exists(e.tables0.nodes_, kMaxNodeId) ) =>
         /\ ~e.thrown /\ ~e.crashed
         /\ e.tables1.nodes_.size = kMaxNodeId + 1
         /\ Exists(e.tables1.nodes_, kMaxNodeId)

\* C15: kAddNode with a negative id or an id above the upper bound 10000
\* fails with an exception and leaves the tables unchanged; kAddNode with
\* id 10000, an existing scene, a known node type and slot 10000 free
\* succeeds and leaves the entity table with exactly 10001 slots, slot 10000
\* occupied.  Checked of every kAddNode the ticks executed and of every
\* kAddNode with an id of NodeIdsTried dispatched from any reachable state.
C15_NodeIdBounds ==
  /\ \A i \in DOMAIN tick_log : C15_Entry(tick_log[i])
  /\ (~crashed /\ ~shutting_down_) =>
       \A id \in NodeIdsTried : C15_Entry(Ran(Cur, AddNodeCmd(0, 5, id)))

\* C15 witness: a tick created entity 10000 in a smaller table, and a later
\* tick failed on kAddNode with id 10001.
C15_Witness ==
  /\ tick_log # <<>> /\ ~crashed
  /\ Last(tick_log).cmd = AddNodeCmd(0, 5, kMaxNodeId + 1)
  /\ Last(tick_log).thrown
  /\ Last(tick_log).tables0.nodes_.size = kMaxNodeId + 1
  /\ Exists(nodes_, kMaxNodeId)

\* The create opcodes of the material and asset tables, each with its table.
AssetCreates ==
  [op \in {kAddMaterial, kAddTexture, kAddModel, kAddSound, kAddCollideModel}
     |-> CASE op = kAddMaterial -> "materials_"
           [] op = kAddTexture -> "textures_"
           [] op = kAddModel -> "models_"
           [] op = kAddSound -> "sounds_"
           [] OTHER -> "collide_models_"]

\* The command ended without exception or fault.
Accepted(e) == ~e.thrown /\ ~e.crashed

\* The command ended in an exception.
Rejected(e) == e.thrown /\ ~e.crashed

AssetIdsTried == {-1, 0, kAssetIdLimit - 1, kAssetIdLimit, kAssetIdLimit + 1}

SceneIdsTried == {-1, 0, kMaxSceneId, kMaxSceneId + 1}

C16_Entry(e) ==
  /\ \A op \in DOMAIN AssetCreates :
       ( /\ IsCmd(e, op, 2) /\ ~e.oob
         /\ Exists(e.tables0.scenes_, Arg(e, 1))
         /\ ~Exists(e.tables0[AssetCreates[op]], Arg(e, 2)) ) =>
         IF Arg(e, 2) >= 0 /\ Arg(e, 2) <= kAssetIdLimit
           THEN Accepted(e) /\ Exists(e.tables1[AssetCreates[op]], Arg(e, 2))
           ELSE Rejected(e)
  /\ (IsCmd(e, kAddSceneGraph, 2) /\ ~Exists(e.tables0.scenes_, Arg(e, 1))) =>
       IF Arg(e, 1) >= 0 /\ Arg(e, 1) <= kMaxSceneId
         THEN Accepted(e) /\ Exists(e.tables1.scenes_, Arg(e, 1))
         ELSE Rejected(e)

\* C16: a create of a material, texture, model, sound or collide model that
\* names an existing scene is accepted for every id from 0 through 1000 and
\* rejected with an exception for every id below 0 or above 1000; a scene
\* create is accepted exactly for the ids 0 through 100.  Checked of every
\* create the ticks executed and, from every reachable running state, of
\* creates with the ids of AssetIdsTried and SceneIdsTried.
C16_AssetIdBounds ==
  /\ \A i \in DOMAIN tick_log : C16_Entry(tick_log[i])
  /\ (~crashed /\ ~shutting_down_) =>
       /\ \A id \in AssetIdsTried :
            /\ C16_Entry(Ran(Cur, AddMaterialCmd(0, id)))
            /\ \A op \in DOMAIN AssetCreates \ {kAddMaterial} :
                 C16_Entry(Ran(Cur, [AddTextureCmd(0, id, 1, <<65>>)
                                       EXCEPT ![1] = op]))
       /\ \A id \in SceneIdsTried :
            C16_Entry(Ran(Cur, AddSceneGraphCmd(id, 0)))

\* The commands that look an object up by the id in their first operand,
\* each with the table it looks in.
LooksUp ==
  [op \in {kRemoveSceneGraph, kStepSceneGraph, kAddNode,
           kSetForegroundSceneGraph, kAddMaterial, kAddTexture, kAddModel,
           kAddSound, kAddCollideModel, kNodeOnCreate, kRemoveNode,
           kRemoveMaterial, kRemoveTexture, kRemoveModel, kRemoveSound,
           kRemoveCollideModel}
     |-> CASE op \in {kNodeOnCreate, kRemoveNode} -> "nodes_"
           [] op = kRemoveMaterial -> "materials_"
           [] op = kRemoveTexture -> "textures_"
           [] op = kRemoveModel -> "models_"
           [] op = kRemoveSound -> "sounds_"
           [] op = kRemoveCollideModel -> "collide_models_"
           [] OTHER -> "scenes_"]

\* The id is negative, outside the table, or names an empty slot.
Missing(t, id) == id < 0 \/ id >= t.size \/ ~Exists(t, id)

\* A command looking up a missing id through GetScene .. GetCollideModel
\* ends in an exception and leaves every table as it was.
C17_LookupEntry(e) ==
  \A op \in DOMAIN LooksUp :
    (IsCmd(e, op, 1) /\ ~e.oob /\ Missing(e.tables0[LooksUp[op]], Arg(e, 1)))
      => Rejected(e) /\ e.tables1 = e.tables0

\* A correction command naming a missing entity ends in an exception and
\* leaves every table as it was.
C17_CorrectionEntry(e) ==
  ( /\ IsCmd(e, kDynamicsCorrection, 2) /\ ~e.oob
    /\ DecodeU16(SubSeq(e.cmd, 3, 4)) >= 1
    /\ Missing(e.tables0.nodes_, DecodeU32(SubSeq(e.cmd, 5, 8))) )
    => Rejected(e) /\ e.tables1 = e.tables0

\* C17: every executed command that references a scene, entity, material or
\* asset by an id that is negative, outside the table or at an empty slot
\* ends in an exception, changes no table, and is the last command of a
\* session that is terminated.
C17_MissingIdIsError ==
  \A i \in DOMAIN tick_log :
    /\ C17_LookupEntry(tick_log[i])
    /\ C17_CorrectionEntry(tick_log[i])
    /\ (tick_log[i].thrown /\ ~crashed) =>
         shutting_down_ /\ i = Len(tick_log)

\* The create opcodes, each with its table and the operand holding the id.
Creates ==
  [op \in DOMAIN AssetCreates \cup {kAddSceneGraph, kAddNode} |->
     CASE op = kAddSceneGraph -> [table |-> "scenes_", arg |-> 1]
       [] op = kAddNode -> [table |-> "nodes_", arg |-> 3]
       [] OTHER -> [table |-> AssetCreates[op], arg |-> 2]]

\* The create command named an id whose slot was occupied.
OnOccupied(e, op) ==
  /\ IsCmd(e, op, Creates[op].arg)
  /\ Exists(e.tables0[Creates[op].table], Arg(e, Creates[op].arg))

\* C18: every executed create command that names an occupied slot fails (by
\* an exception, or by the abort of an assertion) and leaves every table,
\* the occupant of that slot included, as it was.
C18_OccupiedSlotKept ==
  \A i \in DOMAIN tick_log : \A op \in DOMAIN Creates :
    OnOccupied(tick_log[i], op) =>
      /\ tick_log[i].thrown \/ tick_log[i].crashed
      /\ tick_log[i].tables1 = tick_log[i].tables0

\* The remove opcodes, each with its table.
Removes ==
  [op \in {kRemoveSceneGraph, kRemoveNode, kRemoveMaterial, kRemoveTexture,
           kRemoveModel, kRemoveSound, kRemoveCollideModel} |-> LooksUp[op]]

C19_Entry(e) ==
  e.cmd # <<kEndOfFile>> =>
    /\ \A name \in DOMAIN e.tables0 :
         e.tables1[name].size >= e.tables0[name].size
    /\ \A op \in DOMAIN Creates :
         (IsCmd(e, op, Creates[op].arg) /\ Accepted(e) /\ ~e.oob) =>
           \A name \in DOMAIN e.tables0 :
             e.tables1[name].size =
               IF /\ name = Creates[op].table
                  /\ e.tables0[name].size < Arg(e, Creates[op].arg) + 1
                 THEN Arg(e, Creates[op].arg) + 1
                 ELSE e.tables0[name].size
    /\ \A op \in DOMAIN Removes :
         (IsCmd(e, op, 1) /\ Accepted(e) /\ ~e.oob) =>
           /\ \A name \in DOMAIN e.tables0 :
                e.tables1[name].size = e.tables0[name].size
           /\ e.tables1[Removes[op]].occ =
                [i \in (DOMAIN e.tables0[Removes[op]].occ) \ {Arg(e, 1)}
                   |-> e.tables0[Removes[op]].occ[i]]

CreatesAndRemovesTried ==
  {AddSceneGraphCmd(1, 0), AddMaterialCmd(0, 2), RemoveSceneGraphCmd(0),
   RemoveNodeCmd(kMaxNodeId)}

\* C19: no command other than the end-of-file reset decreases the size of a
\* table; an accepted create leaves its table with id + 1 slots when it had
\* fewer and with its size otherwise, and every other table with its size;
\* an accepted remove leaves every size as it was and, in its own table,
\* exactly the slots that were occupied before, less the named one, with
\* their occupants.  Checked of every command the ticks executed and of the
\* commands of CreatesAndRemovesTried dispatched from any reachable state.
C19_TablesOnlyGrow ==
  /\ \A i \in DOMAIN tick_log : C19_Entry(tick_log[i])
  /\ (~crashed /\ ~shutting_down_) =>
       \A cmd \in CreatesAndRemovesTried : C19_Entry(Ran(Cur, cmd))

\* C19 witness: with scenes 7 and 100 in a table of 101 slots, a tick
\* removed scene 7; the table kept its 101 slots and scene 100.
C19_Witness ==
  /\ tick_log # <<>> /\ ~crashed
  /\ tick_log[1].cmd = RemoveSceneGraphCmd(7)
  /\ Accepted(tick_log[1])
  /\ Exists(tick_log[1].tables0.scenes_, kMaxSceneId)
  /\ scenes_.size = kMaxSceneId + 1
  /\ DOMAIN scenes_.occ = {kMaxSceneId}

\* The offset at which the walk of a correction packet ends, by the packet's
\* layout alone: 4 bytes of header, then per entity a 4-byte id, a body
\* count, per body an index, a 16-bit length and that many bytes, then a
\* 16-bit custom-data length and that many bytes.  A field or block that the
\* command does not hold whole makes the walk an overrun.
Overrun(cmd) == Len(cmd) + 1

RECURSIVE BodiesEnd(_, _, _)
BodiesEnd(cmd, off, k) ==
  IF k = 0 THEN off
  ELSE IF off + 3 > Len(cmd) THEN Overrun(cmd)
  ELSE IF off + 3 + DecodeU16(SubSeq(cmd, off + 2, off + 3)) > Len(cmd)
    THEN Overrun(cmd)
  ELSE BodiesEnd(cmd, off + 3 + DecodeU16(SubSeq(cmd, off + 2, off + 3)),
                 k - 1)

CustomEnd(cmd, off) ==
  IF off + 2 > Len(cmd) THEN Overrun(cmd)
  ELSE IF off + 2 + DecodeU16(SubSeq(cmd, off + 1, off + 2)) > Len(cmd)
    THEN Overrun(cmd)
  ELSE off + 2 + DecodeU16(SubSeq(cmd, off + 1, off + 2))

RECURSIVE NodesEnd(_, _, _)
NodesEnd(cmd, off, k) ==
  IF k = 0 \/ off > Len(cmd) THEN off
  ELSE IF off + 5 > Len(cmd) THEN Overrun(cmd)
  ELSE NodesEnd(cmd, CustomEnd(cmd, BodiesEnd(cmd, off + 5, cmd[off + 5])),
                k - 1)

Consumed(cmd) ==
  IF Len(cmd) < 4 THEN Overrun(cmd)
  ELSE NodesEnd(cmd, 4, DecodeU16(SubSeq(cmd, 3, 4)))

\* C20: an executed correction command ends without failure only if its
\* walk consumed exactly the command's size, reading nothing outside it; a
\* walk that ends short of the size or runs over it ends in an exception,
\* and the session is terminated with that command as its last.
C20_ConsumedEqualsSize ==
  \A i \in DOMAIN tick_log :
    (tick_log[i].cmd # <<>> /\ tick_log[i].cmd[1] = kDynamicsCorrection) =>
      /\ Accepted(tick_log[i]) =>
           /\ Consumed(tick_log[i].cmd) = Len(tick_log[i].cmd)
           /\ ~tick_log[i].oob
      /\ Consumed(tick_log[i].cmd) # Len(tick_log[i].cmd) =>
           /\ Rejected(tick_log[i])
           /\ shutting_down_ /\ i = Len(tick_log)

\* The logged command is a correction packet whose first entity exists and
\* whose first body is a body of that entity.
CorrectsFirstBody(e) ==
  /\ IsCmd(e, kDynamicsCorrection, 3)
  /\ DecodeU16(SubSeq(e.cmd, 3, 4)) >= 1
  /\ e.cmd[9] >= 1
  /\ ~Missing(e.tables0.nodes_, DecodeU32(SubSeq(e.cmd, 5, 8)))
  /\ e.cmd[10] \in
       DOMAIN e.tables0.nodes_.occ[DecodeU32(SubSeq(e.cmd, 5, 8))].bodies

\* The body state and smoothing offset of that body, and the resync data of
\* its entity, before (tables0) or after (tables1) the command.
FirstBody(e, tables) ==
  tables.nodes_.occ[DecodeU32(SubSeq(e.cmd, 5, 8))].bodies[e.cmd[10]]

\* C21: an executed correction packet whose first body declares a payload
\* length other than the bytes the body consumes ends in an exception that
\* terminates the session, and leaves every table (and with it every body's
\* state, every smoothing offset and every entity's resync data) as it was.
C21_MismatchLeavesWorld ==
  \A i \in DOMAIN tick_log :
    ( /\ CorrectsFirstBody(tick_log[i]) /\ ~tick_log[i].crashed
      /\ DecodeU16(SubSeq(tick_log[i].cmd, 11, 12)) # kBodyFullSize ) =>
      /\ Rejected(tick_log[i])
      /\ shutting_down_ /\ i = Len(tick_log)
      /\ tick_log[i].tables1 = tick_log[i].tables0

\* The logged command is an accepted correction of an existing body.
Corrected(e) == CorrectsFirstBody(e) /\ Accepted(e)

\* The smoothing offset of the corrected body changed by exactly old
\* position minus new position when the blend flag (the command's second
\* byte) is set, and not at all when it is clear.
C22_OffsetEntry(e) ==
  Corrected(e) =>
    \A k \in 1..3 :
      FirstBody(e, e.tables1).blend[k] - FirstBody(e, e.tables0).blend[k] =
        IF e.cmd[2] # 0
          THEN FirstBody(e, e.tables0).pos[k] - FirstBody(e, e.tables1).pos[k]
          ELSE 0

SceneNodeStep == <<AddSceneGraphCmd(0, 0), AddNodeCmd(0, 5, 0), StepCmd(16)>>

FreshFedSceneNodeStep ==
  /\ \A name \in DOMAIN Tables(Cur) : Tables(Cur)[name] = EmptyTable
  /\ commands_pending_ = <<>> /\ commands_ = SceneNodeStep
  /\ not_executed = SceneNodeStep
  /\ base_time_buffered_ = 16 /\ base_time_ = 0 /\ target_base_time_ = 0
  /\ current_cmd_ = <<>> /\ ~shutting_down_ /\ ~crashed
  /\ launch_calls = 0

OccupiedSlots(t) == {id \in 0..(t.size - 1) : Exists(t, id)}

\* C23: a fresh session that has handled one COMMANDS envelope holding
\* AddSceneGraph(0, 0), AddNode(0, 5, 0) and BaseTimeStep(16), and then runs
\* one Update tick with a time advance of at least 16, ends with elapsed
\* time 16, exactly one scene and one entity, an empty ready list, and is
\* not terminated.
C23_SceneNodeStepTick ==
  [][(FreshFedSceneNodeStep /\ target_base_time_' >= 16) =>
       /\ base_time_' = 16
       /\ OccupiedSlots(scenes_') = {0} /\ OccupiedSlots(nodes_') = {0}
       /\ commands_' = <<>> /\ commands_pending_' = <<>>
       /\ ~shutting_down_' /\ ~crashed' /\ launch_calls' = 0]_vars

\* C23 witness: the tick after that envelope has executed its three
\* commands.
C23_Witness ==
  /\ Len(tick_log) = 3
  /\ \A i \in 1..3 : tick_log[i].cmd = SceneNodeStep[i]
  /\ tick_log[1].tables0.scenes_ = EmptyTable
  /\ tick_log[1].time0 = 0 /\ base_time_ = 16
  /\ ~shutting_down_ /\ ~crashed

\* Envelopes of one and two sub-records over an empty command, a step
\* command without a size and a whole step command, and the three-command
\* envelope of C23.
PayloadsTried == {<<>>, <<kBaseTimeStep>>, StepCmd(16)}

EnvelopesTried ==
  {<<a>> : a \in PayloadsTried}
    \cup {<<a, b>> : a \in PayloadsTried, b \in PayloadsTried}
    \cup {SceneNodeStep}

\* The commands passed to AddCommand are the envelope's payloads, in order,
\* and the envelope raised no error; a process that faulted on the way is
\* not held to it.
PassedAll(r, cmds) ==
  \/ r.crashed
  \/ /\ r.not_executed = not_executed \o cmds
     /\ r.commands_ \o r.commands_pending_ =
          (commands_ \o commands_pending_) \o cmds
     /\ r.exc = "" /\ r.shutting_down_ = shutting_down_

\* C24: for every well-formed COMMANDS envelope of k >= 1 sub-records,
\* HandleSessionMessage passes exactly the k payloads to AddCommand, in
\* envelope order and byte for byte, and then stops.
C24_PassesEachSubRecord ==
  \A cmds \in EnvelopesTried, o \in Oracles :
    crashed \/ PassedAll(HandleSessionMessage(Unlogged(Cur), CommandsMsg(cmds), o), cmds)

\* C24 witness: the three-command envelope has been handled and its three
\* commands wait in envelope order.
C24_Witness == FreshFedSceneNodeStep /\ tick_log = <<>>

IsCorrection(command) == command # <<>> /\ command[1] = kDynamicsCorrection

CorrectionsTried ==
  {CorrectionMsg(0, 0, 0, 3, <<4, 5, 6>>, <<>>),
   CorrectionMsg(1, 0, 0, 2, <<1, 2>>, <<>>),
   <<BA_MESSAGE_SESSION_DYNAMICS_CORRECTION>>,
   <<BA_MESSAGE_SESSION_DYNAMICS_CORRECTION, 0, 1, 0>>}

\* The envelope added one command to the pending list, the correction
\* opcode followed by the envelope's bytes after its kind byte, and nothing
\* to the ready list.
QueuedOne(r, m) ==
  /\ r.exc = "" /\ ~r.crashed
  /\ r.commands_pending_ =
       Append(commands_pending_, <<kDynamicsCorrection>> \o Tail(m))
  /\ r.commands_ = commands_
  /\ r.not_executed = Append(not_executed, <<kDynamicsCorrection>> \o Tail(m))

\* The commands waiting are the ready list followed by the pending list,
\* a correction in the ready list has a step command behind it, and a
\* running process queues every correction envelope as QueuedOne says.
C25_Waiting ==
  /\ not_executed = commands_ \o commands_pending_
  /\ \A i \in DOMAIN commands_ :
       IsCorrection(commands_[i]) =>
         \E j \in DOMAIN commands_ : j > i /\ IsStep(commands_[j])
  /\ \A m \in CorrectionsTried, o \in Oracles :
       crashed \/ QueuedOne(HandleSessionMessage(Unlogged(Cur), m, o), m)

\* A correction a tick executes was in the ready list before the tick, with
\* a step command behind it.
C25_Executed ==
  \A i \in DOMAIN tick_log' :
    IsCorrection(tick_log'[i].cmd) =>
      \E j \in DOMAIN commands_ :
        /\ commands_[j] = tick_log'[i].cmd
        /\ \E k \in DOMAIN commands_ : k > j /\ IsStep(commands_[k])

\* C25: a DYNAMICS_CORRECTION envelope queues exactly one command, the
\* correction opcode followed by the envelope's remaining bytes, on the
\* pending list; it is executed only after a step command received later
\* has moved it to the ready list.
C25_CorrectionQueuedPending == [](C25_Waiting) /\ [][C25_Executed]_vars

\* C25 witness: a tick executed a correction that came as an envelope.
C25_Witness ==
  /\ \E i \in DOMAIN tick_log : IsCorrection(tick_log[i].cmd)
  /\ ~crashed

(***************************************************************************)
(* The replay feeder's claims.  The record format is restated here from    *)
(* the file's bytes, apart from the feeder's own decoding.                 *)
(***************************************************************************)
FileBytes == replay.file.bytes

\* The bytes of the length field of the record at position p (0-based).
LengthField(p) ==
  IF FileBytes[p + 1] < 254 THEN 1
  ELSE IF FileBytes[p + 1] = 254 THEN 3 ELSE 5

\* The file holds the whole length field of the record at p.
HasLength(p) == p < Len(FileBytes) /\ p + LengthField(p) <= Len(FileBytes)

DeclaredLength(p) ==
  IF FileBytes[p + 1] < 254 THEN FileBytes[p + 1]
  ELSE IF FileBytes[p + 1] = 254 THEN DecodeU16(SubSeq(FileBytes, p + 2, p + 3))
  ELSE FileU32(SubSeq(FileBytes, p + 2, p + 5))

\* The file holds the whole record at p.
HasRecord(p) ==
  HasLength(p) /\ p + LengthField(p) + DeclaredLength(p) <= Len(FileBytes)

RecordPayload(p) ==
  SubSeq(FileBytes, p + LengthField(p) + 1,
         p + LengthField(p) + DeclaredLength(p))

\* One pass of the fetch loop over a record whose length field the file
\* holds: the length is the declared one; a length of 0 is refused with an
\* exception and no frame; otherwise, when the file holds the whole record,
\* the frame is its payload, exactly that many bytes.
C26_Pass(e) ==
  (e.open0 /\ HasLength(e.pos0)) =>
    /\ e.len = DeclaredLength(e.pos0)
    /\ e.len = 0 => (e.outcome = "thrown" /\ e.frame = <<>>)
    /\ (e.len > 0 /\ HasRecord(e.pos0)) =>
         /\ e.outcome \in {"frame", "thrown"}
         /\ e.frame = RecordPayload(e.pos0)
         /\ Len(e.frame) = e.len

ReadFailure(e) == e.outcome = "eof" /\ e.open0

\* A read failure left exactly the end-of-file command on the ready list
\* and the file closed, and ended the tick's fetching.
C27_SentinelPlaced ==
  \A i \in DOMAIN replay.fetch_log :
    ReadFailure(replay.fetch_log[i]) =>
      /\ replay.fetch_log[i].ready = << <<kEndOfFile>> >>
      /\ ~replay.fetch_log[i].open
      /\ i = Len(replay.fetch_log)

ReadFailed ==
  \E i \in DOMAIN replay.fetch_log : ReadFailure(replay.fetch_log[i])

\* The end-of-file command was executed and reset the session with rewind:
\* the session is cleared and the file is back at its header.
Rewound ==
  /\ tick_log # <<>>
  /\ Last(tick_log).cmd = <<kEndOfFile>>
  /\ ~Last(tick_log).thrown /\ ~Last(tick_log).crashed
  /\ Cleared(Cur)
  /\ replay.pos <= 6
  /\ ~(\E i \in DOMAIN commands_ : commands_[i] = <<kEndOfFile>>)

\* C27: a failed read of the length prefix, of the extended length or of
\* the payload puts exactly one end-of-file command on the ready list and
\* closes the file, and with ticks arriving the command is executed and the
\* session reset with rewind.
C27_ReadFailureRewinds == [](C27_SentinelPlaced) /\ (ReadFailed ~> Rewound)

\* C27 witness: a tick read a frame, then failed to read the next length
\* prefix, and executed the end-of-file command.
C27_Witness ==
  /\ ReadFailed /\ Rewound /\ ~crashed
  /\ Len(replay.fetch_log) >= 2

\* The file can be opened and starts with the file id and a version.
HasHeader ==
  /\ replay.file.exists
  /\ Len(FileBytes) >= 6
  /\ FileU32(SubSeq(FileBytes, 1, 4)) = kBrpFileID

FileVersion == DecodeU16(SubSeq(FileBytes, 5, 6))

VersionInRange ==
  kProtocolVersionMin <= FileVersion /\ FileVersion <= kProtocolVersion

\* Construction accepts the version exactly when it is in the range: it
\* leaves the session running, with the file open behind its header.
C28_AcceptedAtStartup ==
  HasHeader =>
    /\ replay.startup.running <=> VersionInRange
    /\ VersionInRange => (replay.startup.file_ /\ replay.startup.pos = 6)

\* With a version out of the range the session is terminated, the file
\* stays behind its header, no pass of the fetch loop ran and no command
\* was queued or executed.
C28_RefusedForGood ==
  (HasHeader /\ ~VersionInRange) =>
    /\ shutting_down_
    /\ replay.pos = 6
    /\ replay.fetch_log = <<>>
    /\ tick_log = <<>>
    /\ commands_ = <<>> /\ commands_pending_ = <<>>

\* C28: on replay open a version v is accepted if and only if
\* kProtocolVersionMin <= v <= kProtocolVersion; a version below or above
\* ends the session at startup, and afterwards no frame is read from the
\* file and no command is dispatched.
C28_VersionRangeInclusive == C28_AcceptedAtStartup /\ C28_RefusedForGood

\* C28 witness: a session whose file has the version one above the maximum
\* was given a tick.
C28_Witness ==
  /\ HasHeader
  /\ FileVersion = kProtocolVersion + 1
  /\ ticks = 1
  /\ ~crashed

\* The file cannot be opened, or ends inside its header, or starts with
\* another file id.
WrongFileId ==
  /\ replay.file.exists
  /\ Len(FileBytes) >= 4
  /\ FileU32(SubSeq(FileBytes, 1, 4)) # kBrpFileID

BadHeader ==
  \/ ~replay.file.exists
  \/ Len(FileBytes) < 6
  \/ WrongFileId

\* C29: a replay file with a wrong file id, or whose header cannot be
\* opened or read, fails startup: from construction on the session is
\* shutting down and the file closed, Update never enters its dispatch
\* loop, and no command of the file is read, queued or executed.
C29_BadHeaderFailsStartup ==
  BadHeader =>
    /\ shutting_down_
    /\ ~replay.file_
    /\ replay.fetch_log = <<>>
    /\ tick_log = <<>> /\ underrun_log = <<>>
    /\ commands_ = <<>> /\ commands_pending_ = <<>>
    /\ base_time_ = 0 /\ target_base_time_ = 0

\* C29 witness: a session whose file starts with another file id, followed
\* by a supported version and a frame, was given a tick.
C29_Witness ==
  /\ WrongFileId
  /\ Len(FileBytes) > 6
  /\ ticks = 1
  /\ ~crashed

RECURSIVE DataOf(_)
DataOf(entries) ==
  IF entries = <<>> THEN <<>>
  ELSE <<Head(entries).data>> \o DataOf(Tail(entries))

RECURSIVE MessagesOf(_)
MessagesOf(entries) ==
  IF entries = <<>> THEN <<>>
  ELSE <<Head(entries).message>> \o MessagesOf(Tail(entries))

\* What the forwarding loop of the last operation sent to connection c.
Forwarded(c) ==
  DataOf(SelectSeq(replay.sent, LAMBDA m : m.to = c /\ m.via = "forward"))

Attached(c) ==
  \E k \in DOMAIN replay.connections_to_clients_ :
    replay.connections_to_clients_[k] = c

\* The frames the last operation read and handed to HandleSessionMessage,
\* and those of them the handler returned from.
FramesRead ==
  SelectSeq(replay.fetch_log, LAMBDA e : e.outcome \in {"frame", "thrown"}
                                           /\ e.frame # <<>>)

FramesHandled == SelectSeq(replay.fetch_log, LAMBDA e : e.outcome = "frame")

\* Every connection was forwarded exactly the given frames' messages, in
\* their order, when attached and nothing when not.
ForwardedAre(frames) ==
  \A c \in Clients :
    Forwarded(c) = IF Attached(c) THEN MessagesOf(frames) ELSE <<>>

\* C30 as stated: each frame read from the file is handed to the handler
\* and forwarded verbatim, once and in file order, to every connection
\* attached at that moment, and to no connection attached later.
C30_EachFrameForwarded == crashed \/ ForwardedAre(FramesRead)

\* C30: each frame read from the file is handed to the handler and, when
\* the handler returns without raising an exception, forwarded verbatim,
\* once and in file order, to every connection attached at that moment; a
\* connection attached later is forwarded none of the earlier frames.
C30_HandledFramesForwarded ==
  \/ crashed
  \/ /\ ForwardedAre(FramesHandled)
     /\ \A i \in DOMAIN FramesRead :
          FramesRead[i].message = Decompress(FramesRead[i].frame)

\* C30 witness: a tick forwarded two frames to two attached connections.
C30_Witness ==
  /\ ~crashed
  /\ Len(FramesHandled) >= 2
  /\ Len(replay.connections_to_clients_) = 2

(***************************************************************************)
(* The full-state dump's claims.                                           *)
(***************************************************************************)
\* The place of a call in the order claimed: scenes, materials, assets,
\* nodes, material components.
DumpRank(c) ==
  IF c.call = "Scene::Dump" THEN 1
  ELSE IF c.call = "AddMaterial" THEN 2
  ELSE IF c.call \in {"AddTexture", "AddModel", "AddSound", "AddCollideModel"}
    THEN 3
  ELSE IF c.call = "Scene::DumpNodes" THEN 4
  ELSE 5

\* The table a call dumps from.
DumpedTable(call) ==
  IF call \in {"Scene::Dump", "Scene::DumpNodes"} THEN scenes_
  ELSE IF call \in {"AddMaterial", "Material::DumpComponents"} THEN materials_
  ELSE IF call = "AddTexture" THEN textures_
  ELSE IF call = "AddModel" THEN models_
  ELSE IF call = "AddSound" THEN sounds_
  ELSE collide_models_

DumpCallNames ==
  {"Scene::Dump", "AddMaterial", "AddTexture", "AddModel", "AddSound",
   "AddCollideModel", "Scene::DumpNodes", "Material::DumpComponents"}

\* The positions of the dump at which call is made for id.
DumpedAt(dump, call, id) ==
  {k \in DOMAIN dump : dump[k].call = call /\ dump[k].id = id}

\* The dump is in the claimed order, a slot is dumped exactly once by each
\* call of its table when occupied and not at all when empty, and the
\* commands written create every node after its scene, after every
\* material and after every asset.
DumpOrdered(dump, commands) ==
  /\ \A i, j \in DOMAIN dump : i < j => DumpRank(dump[i]) <= DumpRank(dump[j])
  /\ \A call \in DumpCallNames :
       \A id \in 0..(DumpedTable(call).size - 1) :
         Cardinality(DumpedAt(dump, call, id)) =
           IF Exists(DumpedTable(call), id) THEN 1 ELSE 0
  /\ \A k \in DOMAIN dump : dump[k].id < DumpedTable(dump[k].call).size
  /\ \A i, j \in DOMAIN commands :
       (commands[i][1] = kAddNode /\ commands[j][1] # kAddNode) => j < i
  /\ \A id \in DOMAIN nodes_.occ :
       Cardinality({k \in DOMAIN commands :
                      commands[k] = AddNodeCmd(nodes_.occ[id].scene,
                                               nodes_.occ[id].type, id)}) = 1

\* C31: DumpFullState emits the occupied scenes, then the materials
\* without components, then the assets, then the nodes of each scene, then
\* the material components, so every node comes after its scene and after
\* every material and asset and every material component after every node;
\* empty slots emit nothing.
C31_DumpOrder == DumpOrdered(DumpFullState(Cur), DumpCommands(Cur))

\* C31 witness: a world of two scenes with a node each, materials and
\* assets, some slots below the occupied ones being empty.
C31_Witness ==
  /\ ~crashed
  /\ OccupiedSlots(scenes_) = {0, 1} /\ OccupiedSlots(nodes_) = {0, 2}
  /\ OccupiedSlots(materials_) = {0, 2} /\ OccupiedSlots(models_) = {1}

\* The oracle under which any access outside a buffer aborts the process.
Faulting == [crash |-> TRUE, byte |-> 0]

TableNames ==
  {"scenes_", "nodes_", "textures_", "models_", "sounds_", "collide_models_",
   "materials_"}

\* A fresh interpreter handed the dump of s as one envelope, then the
\* commands behind it (none, or a step command), then one tick.
Ingested(s, behind, o) ==
  LET Ticked(a) == Update(a, 16, o)
      Stepped(h) ==
        IF behind = <<>> THEN Ticked(h)
        ELSE Ticked(AddCommand(h, behind, o))
      fresh == NewSession(NoReplay, s.debug_build)
  IN IF OutMessage(s) = <<>> THEN Stepped(fresh)
     ELSE Stepped(HandleSessionMessage(fresh, OutMessage(s), o))

\* Same occupied ids in every table, and the same scenes, node types and
\* asset names under them.
SameSnapshot(s, r) ==
  /\ \A name \in TableNames : DOMAIN s[name].occ = DOMAIN r[name].occ
  /\ \A id \in DOMAIN s.scenes_.occ : r.scenes_.occ[id] = s.scenes_.occ[id]
  /\ \A id \in DOMAIN s.nodes_.occ :
       /\ r.nodes_.occ[id].scene = s.nodes_.occ[id].scene
       /\ r.nodes_.occ[id].type = s.nodes_.occ[id].type
  /\ \A name \in TableNames \ {"scenes_", "nodes_", "materials_"} :
       \A id \in DOMAIN s[name].occ : r[name].occ[id] = s[name].occ[id]
  /\ \A id \in DOMAIN s.materials_.occ :
       r.materials_.occ[id].scene = s.materials_.occ[id].scene

\* The interpreter r holds the snapshot of s and runs.
Reproduced(s, r) == SameSnapshot(s, r) /\ ~r.shutting_down_ /\ ~r.crashed

\* Every material and asset belongs to a scene that is still there.
OwnersExist(s) ==
  \A name \in TableNames \ {"scenes_", "nodes_"} :
    \A id \in DOMAIN s[name].occ : Exists(s.scenes_, s[name].occ[id].scene)

TickOver ==
  \/ base_time_ >= target_base_time_
  \/ underrun_log # <<>>
  \/ shutting_down_

\* Every pass of the feeder loop over the open file starts further into
\* the file than the pass before, a pass over a closed file is the last,
\* and the tick made no more passes than the file has bytes, plus one.
FeederProgress ==
  /\ \A i \in 1..(Len(replay.fetch_log) - 1) :
       /\ replay.fetch_log[i].open0
       /\ replay.fetch_log[i + 1].open0 =>
            replay.fetch_log[i + 1].pos0 > replay.fetch_log[i].pos0
  /\ Len(replay.fetch_log) <= Len(FileBytes) + 1

\* C33: every Update tick terminates: the dispatch loop and the feeder
\* loop inside it end after finitely many passes, by reaching the target
\* time, by underrun, by an end-of-file reset or by an error.  A tick
\* executes no more commands than the lists held and the file's bytes can
\* carry, its feeder passes move strictly forward in the file, and it is
\* over when Update returns.
C33_TickTerminates ==
  [][(ticks' # ticks /\ ~crashed') =>
       /\ TickOver'
       /\ FeederProgress'
       /\ Len(tick_log') <=
            Len(commands_) + Len(commands_pending_) + Len(FileBytes) + 1]_vars

\* C33 witness: a tick made two passes of the feeder loop and executed two
\* commands before it ended.
C33_Witness ==
  /\ ~crashed /\ ticks = 1
  /\ Len(replay.fetch_log) >= 2 /\ Len(tick_log) >= 2
  /\ TickOver

(***************************************************************************)
(* The buffered-time counter.                                              *)
(***************************************************************************)
RECURSIVE StepSizeSum(_)
StepSizeSum(commands) ==
  IF commands = <<>> THEN 0
  ELSE (IF IsStep(Head(commands)) THEN StepSizeOf(Head(commands)) ELSE 0)
         + StepSizeSum(Tail(commands))

\* Every step command of the list is whole, with a size the protocol
\* accepts.
AcceptedSteps(commands) ==
  \A i \in DOMAIN commands :
    IsStep(commands[i]) =>
      /\ IsWholeStep(commands[i])
      /\ StepSizeOf(commands[i]) >= 1
      /\ StepSizeOf(commands[i]) <= kMaxStepSize

\* C34: while the session is not shutting down, base_time_buffered_ equals
\* the sum of the sizes of the step commands on the ready list, for all
\* step sizes from 1 to 10000.
C34_BufferedIsReadySum ==
  (~shutting_down_ /\ ~crashed /\ AcceptedSteps(commands_)) =>
    base_time_buffered_ = StepSizeSum(commands_)

(***************************************************************************)
(* The COMMANDS envelope: bounds and termination of the sub-record loop.   *)
(***************************************************************************)
\* Envelopes in which every sub-record lies inside: a sub-record of length
\* 0, one of one byte, a whole step command, and two sub-records.
WellFormedEnvelopes ==
  {<<BA_MESSAGE_SESSION_COMMANDS, 0, 0>>,
   <<BA_MESSAGE_SESSION_COMMANDS, 1, 0, 9>>,
   CommandsMsg(<<StepCmd(16)>>),
   <<BA_MESSAGE_SESSION_COMMANDS, 1, 0, 9, 0, 0>>}

\* Malformed envelopes: the kind byte alone, a length header cut after one
\* byte, a declared length running far past the end, one running past the
\* end by one byte, and a length header cut short behind a sub-record.
MalformedEnvelopes ==
  {<<BA_MESSAGE_SESSION_COMMANDS>>,
   <<BA_MESSAGE_SESSION_COMMANDS, 5>>,
   <<BA_MESSAGE_SESSION_COMMANDS, 9, 0, 1>>,
   <<BA_MESSAGE_SESSION_COMMANDS, 2, 0, 9>>,
   <<BA_MESSAGE_SESSION_COMMANDS, 1, 0, 9, 0>>}

\* The session with no access outside a buffer recorded yet.
Unmarked == [Unlogged(Cur) EXCEPT !.oob = FALSE]

\* The envelope was parsed without an access outside it, and refused with
\* an error when malformed.
ParsedInside(r, malformed) ==
  /\ ~r.oob /\ ~r.crashed
  /\ malformed => r.shutting_down_

\* C35: parsing a COMMANDS envelope never reads outside the envelope, for
\* every envelope of size >= 1 (the kind byte alone, a truncated length
\* header, a declared length past the end, a sub-record of length 0), and
\* a malformed envelope is rejected with the 'invalid state message' error.
C35_EnvelopeReadsInside ==
  crashed \/
    \A m \in WellFormedEnvelopes \cup MalformedEnvelopes, o \in Oracles :
      ParsedInside(HandleSessionMessage(Unmarked, m, o),
                   m \in MalformedEnvelopes)

\* The commands the call added, and the bytes they take as sub-records.
AddedBy(r) ==
  SubSeq(r.not_executed, Len(not_executed) + 1, Len(r.not_executed))

\* The loop made at most one pass per two bytes of the envelope, and left
\* either with the offset exactly on the end of the envelope (the
\* sub-records passed on fill it) or with the error raised.
LoopEnded(r, m) ==
  \/ r.crashed
  \/ /\ Len(AddedBy(r)) <= (Len(m) - 1) \div 2 + 1
     /\ \/ 1 + Len(SubRecords(AddedBy(r))) = Len(m)
        \/ r.shutting_down_

\* C36: parsing a COMMANDS envelope always terminates: the sub-record loop
\* exits after finitely many passes, because the offset landed exactly on
\* the end of the envelope or because the error was raised; an offset past
\* the end is refused at the next pass.
C36_EnvelopeLoopEnds ==
  crashed \/
    \A m \in WellFormedEnvelopes \cup MalformedEnvelopes, o \in Oracles :
      LoopEnded(HandleSessionMessage(Unmarked, m, o), m)

\* C36 witness: the loop made three passes over an envelope of three
\* sub-records and left on its end; the three commands are on the ready
\* list.
C36_Witness ==
  /\ ~crashed /\ ~shutting_down_
  /\ Len(commands_) = 3 /\ commands_pending_ = <<>>
  /\ 1 + Len(SubRecords(commands_)) = Len(CommandsMsg(commands_))
  /\ CommandsMsg(commands_) \in feed.msgs

\* C37: the feeder reads the file only while the file is open, the
\* session is not shutting down and the ready list is empty, at every
\* read inside FetchMessages: every pass of its loop starts with the file
\* open and the session running, also behind a frame whose handling closed
\* the file, ended the session or reset it.
C37_ReadsOnlyWhileOpen ==
  \A i \in DOMAIN replay.fetch_log :
    /\ replay.fetch_log[i].open0
    /\ ~replay.fetch_log[i].down0
    /\ i > 1 => replay.fetch_log[i - 1].ready = <<>>

(***************************************************************************)
(* The relay connections.                                                  *)
(***************************************************************************)
\* What an operation sent to connection c, in the order sent.
SentTo(r, c) == SelectSeq(r.replay.sent, LAMBDA m : m.to = c)

NoDuplicates(list) ==
  \A i, j \in DOMAIN list : list[i] = list[j] => i = j

\* OnClientConnected(c) took s to r: for a listed connection nothing
\* changed and nothing was sent; a new one is appended to the list and is
\* sent the dump first, when there is one, then the correction messages,
\* and no forwarded frame; the others are sent the correction messages.
Connected(s, r, c) ==
  IF \E k \in DOMAIN s.replay.connections_to_clients_ :
       s.replay.connections_to_clients_[k] = c
    THEN r = s
  ELSE
    /\ r.replay.connections_to_clients_ =
         Append(s.replay.connections_to_clients_, c)
    /\ DataOf(SentTo(r, c)) =
         (IF OutMessage(s) = <<>> THEN <<>> ELSE <<OutMessage(s)>>)
           \o CorrectionMessages(s)
    /\ \A d \in Clients \ {c} :
         DataOf(SentTo(r, d)) =
           IF \E k \in DOMAIN s.replay.connections_to_clients_ :
                s.replay.connections_to_clients_[k] = d
             THEN CorrectionMessages(s) ELSE <<>>
    /\ \A k \in DOMAIN r.replay.sent : r.replay.sent[k].via = "attach"
    /\ [r EXCEPT !.replay.sent = <<>>, !.replay.connections_to_clients_ =
                                          s.replay.connections_to_clients_] = s

ResetFrames ==
  SelectSeq(replay.fetch_log,
            LAMBDA e : e.outcome = "frame"
                         /\ Head(e.message) = BA_MESSAGE_SESSION_RESET)

RewindsExecuted ==
  SelectSeq(tick_log, LAMBDA e : e.cmd = <<kEndOfFile>> /\ ~e.crashed)

\* The RESET messages the last tick sent to connection c, by any path.
ResetsSentTo(c) ==
  SelectSeq(replay.sent,
            LAMBDA m : m.to = c /\ Head(m.data) = BA_MESSAGE_SESSION_RESET)

\* C39 as stated: each reset of a replay session sends every attached
\* connection exactly one RESET message, rewinding or not, and a RESET
\* frame handled from the stream leaves the file open where it was.
C39_OneResetMessagePerReset ==
  [][(ticks' # ticks /\ ~crashed') =>
       (/\ \A c \in Clients :
             Attached(c)' =>
               Len(ResetsSentTo(c))' = Len(ResetFrames') + Len(RewindsExecuted')
        /\ \A k \in DOMAIN ResetFrames' :
             /\ ResetFrames'[k].open0 /\ ResetFrames'[k].open
             /\ ResetFrames'[k].len > 0)]_vars

(***************************************************************************)
(* The end-of-file command.                                                *)
(***************************************************************************)
\* The positions in the last tick's log of the end-of-file commands.
SentinelsExecuted ==
  {k \in DOMAIN tick_log :
     tick_log[k].cmd # <<>> /\ Head(tick_log[k].cmd) = kEndOfFile}

====
